---------------------------- MODULE Spec2Model ----------------------------
(***************************************************************************)
(* claw-usage-chart: the JSONL usage parser (parser.go), the incremental   *)
(* SQLite cache sync and the aggregation queries (db.go).                  *)
(*                                                                         *)
(* Strings are sequences of one-character strings, so that trimming,       *)
(* numeric parsing and SQLite's TEXT comparison are computed, not assumed. *)
(***************************************************************************)
EXTENDS Integers, Sequences, FiniteSets, TLC

(***************************************************************************)
(* Characters and strings                                                  *)
(***************************************************************************)
DigitChars == <<"0", "1", "2", "3", "4", "5", "6", "7", "8", "9">>

IsDigit(c) == \E i \in 1..10 : DigitChars[i] = c

DigitVal(c) == (CHOOSE i \in 1..10 : DigitChars[i] = c) - 1

DigitChar(n) == DigitChars[n + 1]

\* Byte value of the characters the model uses (ASCII).
Ord(c) ==
    IF IsDigit(c) THEN 48 + DigitVal(c)
    ELSE CASE c = "\n" -> 10
           [] c = "\r" -> 13
           [] c = " " -> 32
           [] c = "*" -> 42
           [] c = "+" -> 43
           [] c = "-" -> 45
           [] c = "/" -> 47
           [] c = "." -> 46
           [] c = ":" -> 58
           [] c = "T" -> 84
           [] c = "Z" -> 90
           [] c = "a" -> 97
           [] c = "b" -> 98
           [] c = "k" -> 107
           [] c = "m" -> 109
           [] c = "n" -> 110
           [] c = "o" -> 111
           [] c = "u" -> 117
           [] c = "w" -> 119
           [] c = "x" -> 120
           [] c = "{" -> 123
           [] c = "}" -> 125

RECURSIVE StrLess(_, _)
\* Byte-wise (memcmp) order of two strings: SQLite's BINARY collation.
StrLess(a, b) ==
    IF b = <<>> THEN FALSE
    ELSE IF a = <<>> THEN TRUE
    ELSE IF Ord(Head(a)) # Ord(Head(b)) THEN Ord(Head(a)) < Ord(Head(b))
    ELSE StrLess(Tail(a), Tail(b))

StrLE(a, b) == a = b \/ StrLess(a, b)

IsSpace(c) == c \in {" ", "\n", "\r"}

RECURSIVE TrimLeft(_)
TrimLeft(s) == IF s # <<>> /\ IsSpace(Head(s)) THEN TrimLeft(Tail(s)) ELSE s

RECURSIVE TrimRight(_)
TrimRight(s) ==
    IF s # <<>> /\ IsSpace(s[Len(s)]) THEN TrimRight(SubSeq(s, 1, Len(s) - 1)) ELSE s

TrimSpace(s) == TrimRight(TrimLeft(s))

AllDigits(s) == \A i \in 1..Len(s) : IsDigit(s[i])

RECURSIVE StripZeros(_)
StripZeros(d) == IF Len(d) > 1 /\ Head(d) = "0" THEN StripZeros(Tail(d)) ELSE d

RECURSIVE DigitsToInt(_)
\* Value of a digit string (the inputs keep it far below 2^31).
DigitsToInt(d) ==
    IF d = <<>> THEN 0 ELSE 10 * DigitsToInt(SubSeq(d, 1, Len(d) - 1)) + DigitVal(d[Len(d)])

IndexOf(s, c) == IF \E i \in 1..Len(s) : s[i] = c
                 THEN CHOOSE i \in 1..Len(s) : s[i] = c /\ \A j \in 1..(i - 1) : s[j] # c
                 ELSE 0

(***************************************************************************)
(* JSON values as encoding/json delivers them to the parser.               *)
(* A scalar is [t, s]: t is "null" (absent or null), "num" (s = the number *)
(* literal), "str" (s = the string), "bool" (s = "1" or "0") or "obj".     *)
(***************************************************************************)
Null == [t |-> "null", s |-> <<>>]

Num(lit) == [t |-> "num", s |-> lit]

Str(chars) == [t |-> "str", s |-> chars]

Bool(b) == [t |-> "bool", s |-> IF b THEN <<"1">> ELSE <<"0">>]

Obj == [t |-> "obj", s |-> <<>>]

\* strconv.ParseFloat on [sign] digits [. digits]: the sign, the integer
\* digits and the fraction digits of the value, or ok = FALSE.
FloatOf(neg, ip, fp) ==
    [ok  |-> AllDigits(ip) /\ AllDigits(fp) /\ Len(ip) + Len(fp) > 0,
     neg |-> neg,
     ip  |-> IF ip = <<>> THEN <<"0">> ELSE ip,
     fp  |-> fp]

FloatParts(neg, body, dot) ==
    IF dot = 0 THEN FloatOf(neg, body, <<>>)
    ELSE FloatOf(neg, SubSeq(body, 1, dot - 1), SubSeq(body, dot + 1, Len(body)))

ParseFloat(s) ==
    IF s # <<>> /\ Head(s) \in {"-", "+"}
    THEN FloatParts(Head(s) = "-", Tail(s), IndexOf(Tail(s), "."))
    ELSE FloatParts(FALSE, s, IndexOf(s, "."))

\* Go's int(f) for a float64: truncation toward zero.
FloatToInt(f) == IF f.neg THEN 0 - DigitsToInt(f.ip) ELSE DigitsToInt(f.ip)

\* The string case of toInt, after strings.TrimSpace and ParseFloat.
FloatOrZero(f) == IF ~f.ok THEN 0 ELSE FloatToInt(f)

StringToInt(str) == IF str = <<>> THEN 0 ELSE FloatOrZero(ParseFloat(str))

toInt(v) ==
    CASE v.t = "null" -> 0
      [] v.t = "num"  -> FloatToInt(ParseFloat(v.s))
      [] v.t = "str"  -> StringToInt(TrimSpace(v.s))
      [] v.t = "bool" -> IF v.s = <<"1">> THEN 1 ELSE 0
      [] OTHER -> 0

\* rawUsage with every field absent.
EmptyUsage ==
    [t |-> "obj",
     TotalTokens |-> Null, TotalTokens2 |-> Null, Total |-> Null, Tokens |-> Null,
     Input |-> Null, Output |-> Null, CacheRead |-> Null, CacheWrite |-> Null,
     InputTokens |-> Null, OutputTokens |-> Null,
     CacheReadInputTokens |-> Null, CacheCreationInputTokens |-> Null,
     ReasoningTokens |-> Null,
     Cost |-> Null, CostTotal |-> Null]

\* A "usage" member that is missing, null, or not an object.
UsageAbsent == [EmptyUsage EXCEPT !.t = "absent"]

UsageNull == [EmptyUsage EXCEPT !.t = "null"]

UsageBad == [EmptyUsage EXCEPT !.t = "bad"]

\* rawMessage with every field absent; t is "absent", "null", "bad" (not an
\* object) or "obj".
EmptyMessage ==
    [t |-> "obj", Usage |-> UsageAbsent,
     Model |-> Null, ModelID |-> Null, ModelID2 |-> Null, Timestamp |-> Null]

MessageAbsent == [EmptyMessage EXCEPT !.t = "absent"]

\* rawRecord with every field absent; t is "bad" when the line is not JSON.
EmptyRecord ==
    [t |-> "obj", Timestamp |-> Null, Message |-> MessageAbsent, Usage |-> UsageAbsent,
     CostUsd |-> Null, Model |-> Null, ModelID |-> Null, ModelID2 |-> Null]

BadLine == [EmptyRecord EXCEPT !.t = "bad"]

\* A Go string field accepts a JSON string or null; anything else makes
\* json.Unmarshal return an UnmarshalTypeError.
StringFieldOk(v) == v.t \in {"null", "str"}

\* json.Unmarshal(rec.Message, &msg) into rawMessage succeeds.
MessageDecodes(m) ==
    /\ m.t \in {"null", "obj"}
    /\ StringFieldOk(m.Model) /\ StringFieldOk(m.ModelID) /\ StringFieldOk(m.ModelID2)

\* json.Unmarshal(line, &rec) into rawRecord succeeds.
RecordDecodes(rec) ==
    /\ rec.t = "obj"
    /\ StringFieldOk(rec.Model) /\ StringFieldOk(rec.ModelID) /\ StringFieldOk(rec.ModelID2)
    /\ rec.CostUsd.t \in {"null", "num"}

\* len(raw) > 0 for a json.RawMessage member: the key is present (null
\* included, which RawMessage keeps as the bytes "null").
RawPresent(x) == x.t # "absent"

\* json.Unmarshal(raw, &u) into rawUsage succeeds: an object or null.
UsageDecodes(u) == u.t \in {"null", "obj"}

NoUsage == [EmptyUsage EXCEPT !.t = "none"]

extractUsage(rec) ==
    IF /\ RawPresent(rec.Message)
       /\ MessageDecodes(rec.Message) /\ rec.Message.t = "obj"
       /\ RawPresent(rec.Message.Usage)
       /\ UsageDecodes(rec.Message.Usage)
    THEN rec.Message.Usage
    ELSE IF RawPresent(rec.Usage) /\ UsageDecodes(rec.Usage)
    THEN rec.Usage
    ELSE NoUsage

RECURSIVE FirstPositive(_), PositiveOrNext(_, _)
\* The first value of the list with toInt(v) > 0, or 0.
FirstPositive(vs) ==
    IF vs = <<>> THEN 0 ELSE PositiveOrNext(toInt(Head(vs)), Tail(vs))

PositiveOrNext(n, rest) == IF n > 0 THEN n ELSE FirstPositive(rest)

\* if n := toInt(v); n > 0 { total += n }
PositivePart(n) == IF n > 0 THEN n ELSE 0

RECURSIVE SumPositive(_)
SumPositive(vs) ==
    IF vs = <<>> THEN 0 ELSE PositivePart(toInt(Head(vs))) + SumPositive(Tail(vs))

\* The explicit totals with total_tokens looked at before totalTokens.
ExplicitTotalsSnakeFirst(u) == <<u.TotalTokens2, u.TotalTokens, u.Total, u.Tokens>>

\* totalTokens, total_tokens, total, tokens.
ExplicitTotals(u) == <<u.TotalTokens, u.TotalTokens2, u.Total, u.Tokens>>

ComponentFields(u) ==
    <<u.Input, u.Output, u.CacheRead, u.CacheWrite, u.InputTokens, u.OutputTokens,
      u.CacheReadInputTokens, u.CacheCreationInputTokens, u.ReasoningTokens>>

\* A total that ignores the explicit total fields.
SumOfComponents(explicit, u) == SumPositive(ComponentFields(u))

\* The explicit total when one is positive, else the sum of the components.
TotalOrSum(explicit, u) ==
    IF explicit > 0 THEN explicit ELSE SumPositive(ComponentFields(u))

extractTotalTokens(u) == TotalOrSum(FirstPositive(ExplicitTotals(u)), u)

\* strings.TrimSpace of a Go string field ("" when the member is absent).
FieldString(v) == IF v.t = "str" THEN TrimSpace(v.s) ELSE <<>>

RECURSIVE FirstNonEmpty(_), NonEmptyOrNext(_, _)
FirstNonEmpty(vs) ==
    IF vs = <<>> THEN <<>> ELSE NonEmptyOrNext(FieldString(Head(vs)), Tail(vs))

NonEmptyOrNext(str, rest) == IF str # <<>> THEN str ELSE FirstNonEmpty(rest)

UNKNOWN == <<"u", "n", "k", "n", "o", "w", "n">>

\* The model named inside "message", or "".
MessageModel(m) ==
    IF RawPresent(m) /\ MessageDecodes(m) /\ m.t = "obj"
    THEN FirstNonEmpty(<<m.Model, m.ModelID, m.ModelID2>>)
    ELSE <<>>

OrUnknown(str) == IF str # <<>> THEN str ELSE UNKNOWN

\* A resolution that looks at the top-level aliases before the message's.
ModelTopFirst(inMsg, rec) ==
    IF FirstNonEmpty(<<rec.Model, rec.ModelID, rec.ModelID2>>) # <<>>
    THEN FirstNonEmpty(<<rec.Model, rec.ModelID, rec.ModelID2>>)
    ELSE OrUnknown(inMsg)

ModelOrTop(inMsg, rec) ==
    IF inMsg # <<>> THEN inMsg
    ELSE OrUnknown(FirstNonEmpty(<<rec.Model, rec.ModelID, rec.ModelID2>>))

extractModel(rec) == ModelOrTop(MessageModel(rec.Message), rec)

\* A float64 cost in tenths of a unit (the inputs carry at most one
\* fraction digit).
Signed(neg, mag) == IF neg THEN 0 - mag ELSE mag

FloatToTenths(f) ==
    Signed(f.neg, 10 * DigitsToInt(f.ip) + (IF f.fp = <<>> THEN 0 ELSE DigitVal(Head(f.fp))))

\* A resolution that prefers the cost inside the usage object.
extractCostUsageFirst(rec, u) ==
    IF u.Cost.t = "num" THEN FloatToTenths(ParseFloat(u.Cost.s))
    ELSE IF u.Cost.t = "obj" /\ u.CostTotal.t = "num"
         THEN FloatToTenths(ParseFloat(u.CostTotal.s))
    ELSE IF rec.CostUsd.t = "num" THEN FloatToTenths(ParseFloat(rec.CostUsd.s))
    ELSE 0

extractCost(rec, u) ==
    IF rec.CostUsd.t = "num" THEN FloatToTenths(ParseFloat(rec.CostUsd.s))
    ELSE IF u.Cost.t = "null" THEN 0
    ELSE IF u.Cost.t = "num" THEN FloatToTenths(ParseFloat(u.Cost.s))
    ELSE IF u.Cost.t = "obj" /\ u.CostTotal.t = "num"
         THEN FloatToTenths(ParseFloat(u.CostTotal.s))
    ELSE 0

extractTimestamp(rec) ==
    IF rec.Timestamp.t # "null" THEN rec.Timestamp
    ELSE IF RawPresent(rec.Message) /\ rec.Message.t = "obj"
    THEN rec.Message.Timestamp
    ELSE Null

(***************************************************************************)
(* Time.  A time.Time is [day, sod]: days since 1970-01-01 and the second  *)
(* of that day, UTC.  The calendar is the proleptic Gregorian one of Go's  *)
(* time package.                                                           *)
(***************************************************************************)
SecondsPerDay == 24 * 60 * 60

\* time.Time{}: 0001-01-01T00:00:00Z.
ZeroTime == [day |-> 0 - 719162, sod |-> 0]

IsZero(t) == t = ZeroTime

IsLeap(y) == (y % 4 = 0 /\ y % 100 # 0) \/ y % 400 = 0

DaysIn(y, m) ==
    IF m = 2 THEN (IF IsLeap(y) THEN 29 ELSE 28)
    ELSE IF m \in {4, 6, 9, 11} THEN 30 ELSE 31

DaysFromEra(era, yoe, doy) ==
    era * 146097 + yoe * 365 + yoe \div 4 - yoe \div 100 + doy - 719468

DaysFromShifted(yy, mp, d) ==
    DaysFromEra(yy \div 400, yy - (yy \div 400) * 400, (153 * mp + 2) \div 5 + d - 1)

\* Days since 1970-01-01 of the civil date y-m-d.
DaysFromCivil(y, m, d) ==
    DaysFromShifted(IF m <= 2 THEN y - 1 ELSE y, IF m > 2 THEN m - 3 ELSE m + 9, d)

CivilMonth(y0, m, d) == <<y0 + (IF m <= 2 THEN 1 ELSE 0), m, d>>

CivilMp(era, yoe, doy, mp) ==
    CivilMonth(yoe + era * 400, IF mp < 10 THEN mp + 3 ELSE mp - 9,
               doy - (153 * mp + 2) \div 5 + 1)

CivilDoy(era, yoe, doy) == CivilMp(era, yoe, doy, (5 * doy + 2) \div 153)

CivilYoe(era, doe, yoe) ==
    CivilDoy(era, yoe, doe - (365 * yoe + yoe \div 4 - yoe \div 100))

CivilDoe(era, doe) ==
    CivilYoe(era, doe, (doe - doe \div 1460 + doe \div 36524 - doe \div 146096) \div 365)

CivilEra(z, era) == CivilDoe(era, z - era * 146097)

\* The civil date <<y, m, d>> of a day number.
CivilFromDays(day) == CivilEra(day + 719468, (day + 719468) \div 146097)

RECURSIVE LongDiv(_, _, _, _)
\* <<quotient, remainder>> of a digit string divided by n, digit by digit.
LongDiv(d, n, q, r) ==
    IF d = <<>> THEN <<q, r>>
    ELSE LongDiv(Tail(d), n, 10 * q + (10 * r + DigitVal(Head(d))) \div n,
                 (10 * r + DigitVal(Head(d))) % n)

UnixOf(neg, qr) ==
    IF ~neg THEN [day |-> qr[1], sod |-> qr[2]]
    ELSE IF qr[2] = 0 THEN [day |-> 0 - qr[1], sod |-> 0]
    ELSE [day |-> 0 - qr[1] - 1, sod |-> SecondsPerDay - qr[2]]

\* time.Unix(sec, 0).UTC() for sec = -digits or +digits.
UnixTime(neg, digits) == UnixOf(neg, LongDiv(digits, SecondsPerDay, 0, 0))

\* x / 1000.0 truncated by int64(): the digits without the last three.
DivThousand(digits) ==
    IF Len(digits) <= 3 THEN <<"0">> ELSE SubSeq(digits, 1, Len(digits) - 3)

TenBillion == <<"1", "0", "0", "0", "0", "0", "0", "0", "0", "0", "0">>

ExceedsDigits(f, ip) ==
    /\ ~f.neg
    /\ \/ Len(ip) > Len(TenBillion)
       \/ /\ Len(ip) = Len(TenBillion)
          /\ (ip # TenBillion \/ \E i \in 1..Len(f.fp) : f.fp[i] # "0")

\* v > 10_000_000_000 for the float64 f.
ExceedsTenBillion(f) == ExceedsDigits(f, StripZeros(f.ip))

NonEmptyDigits(body) == AllDigits(body) /\ Len(body) > 0

isNumeric(s) ==
    IF s # <<>> /\ Head(s) = "-" THEN NonEmptyDigits(Tail(s)) ELSE NonEmptyDigits(s)

ReplaceAt(s, i) ==
    IF i = 0 THEN s
    ELSE SubSeq(s, 1, i - 1) \o <<"+", "0", "0", ":", "0", "0">> \o SubSeq(s, i + 1, Len(s))

\* strings.Replace(s, "Z", "+00:00", 1)
ReplaceZ(s) == ReplaceAt(s, IndexOf(s, "Z"))

TwoDigits(s, i) == 10 * DigitVal(s[i]) + DigitVal(s[i + 1])

NoDate == [ok |-> FALSE, y |-> 0, m |-> 0, d |-> 0]

DateOf(y, m, d) ==
    IF m \in 1..12 /\ d >= 1 /\ d <= DaysIn(y, m)
    THEN [ok |-> TRUE, y |-> y, m |-> m, d |-> d]
    ELSE NoDate

\* time.Parse("2006-01-02", s): ok and the civil date.
ParseDate(s) ==
    IF /\ Len(s) = 10
       /\ \A i \in {1, 2, 3, 4, 6, 7, 9, 10} : IsDigit(s[i])
       /\ s[5] = "-" /\ s[8] = "-"
    THEN DateOf(DigitsToInt(SubSeq(s, 1, 4)), TwoDigits(s, 6), TwoDigits(s, 9))
    ELSE NoDate

NoClock == [ok |-> FALSE, sod |-> 0, next |-> 0]

ClockOf(h, mi, se, fracEnd) ==
    IF h <= 23 /\ mi <= 59 /\ se <= 59
    THEN [ok |-> TRUE, sod |-> 3600 * h + 60 * mi + se, next |-> fracEnd + 1]
    ELSE NoClock

\* The clock part "15:04:05" at s[12..19], with an optional fraction: ok,
\* the second of the day and the index after it.
ParseClock(s) ==
    IF /\ Len(s) >= 19
       /\ s[11] = "T"
       /\ \A i \in {12, 13, 15, 16, 18, 19} : IsDigit(s[i])
       /\ s[14] = ":" /\ s[17] = ":"
    THEN ClockOf(TwoDigits(s, 12), TwoDigits(s, 15), TwoDigits(s, 18),
                 IF Len(s) >= 21 /\ s[20] = "." /\ IsDigit(s[21])
                 THEN CHOOSE j \in 21..Len(s) :
                          /\ \A k \in 21..j : IsDigit(s[k])
                          /\ (j = Len(s) \/ ~IsDigit(s[j + 1]))
                 ELSE 19)
    ELSE NoClock

NoZone == [ok |-> FALSE, off |-> 0]

ZoneOf(neg, hh, mm) ==
    IF hh <= 23 /\ mm <= 59
    THEN [ok |-> TRUE, off |-> Signed(neg, 3600 * hh + 60 * mm)]
    ELSE NoZone

\* The zone "+07:00" / "-07:00" that must end the string at index i: ok and
\* the offset east of UTC in seconds.
ParseZone(s, i) ==
    IF /\ Len(s) = i + 5
       /\ s[i] \in {"+", "-"}
       /\ \A k \in {i + 1, i + 2, i + 4, i + 5} : IsDigit(s[k])
       /\ s[i + 3] = ":"
    THEN ZoneOf(s[i] = "-", TwoDigits(s, i + 1), TwoDigits(s, i + 4))
    ELSE NoZone

\* [day, sod] moved by delta seconds.
AddSeconds(t, delta) ==
    [day |-> t.day + (t.sod + delta) \div SecondsPerDay,
     sod |-> (t.sod + delta) % SecondsPerDay]

NoTime == [ok |-> FALSE, t |-> ZeroTime]

RFC3339Zone(date, clock, zone) ==
    IF zone.ok
    THEN [ok |-> TRUE,
          t |-> AddSeconds([day |-> DaysFromCivil(date.y, date.m, date.d),
                            sod |-> clock.sod], 0 - zone.off)]
    ELSE NoTime

RFC3339Clock(iso, date, clock) ==
    IF date.ok /\ clock.ok THEN RFC3339Zone(date, clock, ParseZone(iso, clock.next))
    ELSE NoTime

\* time.Parse(time.RFC3339Nano, iso), as UTC.
ParseRFC3339(iso) ==
    RFC3339Clock(iso, IF Len(iso) >= 10 THEN ParseDate(SubSeq(iso, 1, 10)) ELSE NoDate,
                 ParseClock(iso))

\* The numeric branch: milliseconds above 10^10, else seconds.
NumberToTime(f) ==
    UnixTime(f.neg, IF ExceedsTenBillion(f) THEN DivThousand(f.ip) ELSE f.ip)

\* The numeric-string branch: milliseconds from 13 characters on.
NumericStringToTime(str, f) ==
    UnixTime(f.neg, IF Len(str) >= 13 THEN DivThousand(f.ip) ELSE f.ip)

\* time.Parse("2006-01-02", s[:10]) of a string shaped like a bare date.
BareDate(bare) ==
    IF bare.ok THEN [day |-> DaysFromCivil(bare.y, bare.m, bare.d), sod |-> 0]
    ELSE ZeroTime

IsoOrBare(str, iso) ==
    IF iso.ok THEN iso.t
    ELSE BareDate(IF Len(str) >= 10 /\ str[5] = "-" /\ str[8] = "-"
                  THEN ParseDate(SubSeq(str, 1, 10)) ELSE NoDate)

StringToTime(str) ==
    IF str = <<>> THEN ZeroTime
    ELSE IF isNumeric(str) THEN NumericStringToTime(str, ParseFloat(str))
    ELSE IsoOrBare(str, ParseRFC3339(ReplaceZ(str)))

parseTimestampToTime(ts) ==
    CASE ts.t = "num" -> NumberToTime(ParseFloat(ts.s))
      [] ts.t = "str" -> StringToTime(TrimSpace(ts.s))
      [] OTHER -> ZeroTime

\* t.Local() in a zone tz seconds east of UTC.
Local(t, tz) == AddSeconds(t, tz)

Pad2(n) == <<DigitChar(n \div 10), DigitChar(n % 10)>>

Pad4(n) == <<DigitChar(n \div 1000), DigitChar((n \div 100) % 10),
             DigitChar((n \div 10) % 10), DigitChar(n % 10)>>

FormatCivil(c) == Pad4(c[1]) \o <<"-">> \o Pad2(c[2]) \o <<"-">> \o Pad2(c[3])

\* t.Format("2006-01-02")
FormatDate(t) == FormatCivil(CivilFromDays(t.day))

DateKeyOf(t, tz) == IF IsZero(t) THEN <<>> ELSE FormatDate(Local(t, tz))

\* "" when there is no usable timestamp.
parseTimestampToDate(ts, tz) == DateKeyOf(parseTimestampToTime(ts), tz)

\* A nil *int.
NilInt == 0 - 1

\* time.Weekday of a day number: 1970-01-01 was a Thursday (4).
Weekday(day) == (day + 4) % 7

\* hour = t.Hour(); dow = (int(t.Weekday()) + 6) % 7
\* Hour and day of week with Go's numbering of the days (Sunday = 0).
HourDOWSundayFirst(lt) == <<lt.sod \div 3600, Weekday(lt.day)>>

HourDOWLocal(lt) == <<lt.sod \div 3600, (Weekday(lt.day) + 6) % 7>>

\* An hour and day of week computed from the zero time too.
HourDOWAlways(t, tz) == HourDOWLocal(Local(t, tz))

HourDOWOf(t, tz) == IF IsZero(t) THEN <<NilInt, NilInt>> ELSE HourDOWLocal(Local(t, tz))

\* <<hour, dow>>, dow 0 = Monday .. 6 = Sunday; both nil without a timestamp.
parseTimestampToHourDOW(ts, tz) == HourDOWOf(parseTimestampToTime(ts), tz)

\* The UsageRecord ParseLine returns.
UsageRecord(agentName, model, date, tokens, cost, hd) ==
    [AgentName |-> agentName,
     Model     |-> model,
     DateKey   |-> IF date = <<>> THEN UNKNOWN ELSE date,
     Tokens    |-> tokens,
     Cost      |-> cost,
     Hour      |-> hd[1],
     DOW       |-> hd[2]]

\* A ParseLine without the check of the token total.
ParseTokensAnyTotal(agentName, rec, usage, tokens, ts, tz) ==
    <<UsageRecord(agentName, extractModel(rec), parseTimestampToDate(ts, tz), tokens,
                  extractCost(rec, usage), parseTimestampToHourDOW(ts, tz))>>

\* if tokens <= 0 { return nil }, then the record.
ParseTokens(agentName, rec, usage, tokens, ts, tz) ==
    IF tokens <= 0 THEN <<>>
    ELSE <<UsageRecord(agentName, extractModel(rec), parseTimestampToDate(ts, tz), tokens,
                       extractCost(rec, usage), parseTimestampToHourDOW(ts, tz))>>

ParseUsage(agentName, rec, usage, tz) ==
    IF usage.t = "none" THEN <<>>
    ELSE ParseTokens(agentName, rec, usage, extractTotalTokens(usage),
                     extractTimestamp(rec), tz)

\* ParseLine on a decoded line: <<>> when the line is skipped, else <<record>>.
ParseLine(agentName, rec, tz) ==
    IF ~RecordDecodes(rec) THEN <<>>
    ELSE ParseUsage(agentName, rec, extractUsage(rec), tz)

(***************************************************************************)
(* Session files.  A file's content is its bytes; a JSON line is modelled  *)
(* as the three bytes "{", a key, "}", the key naming a document of the    *)
(* catalogue below.  Anything else (a partial line, an empty line) is not  *)
(* a JSON document.                                                        *)
(***************************************************************************)
Lit(n) == <<DigitChar(n)>>

\* {"timestamp":"2026-02-17T00:00:00Z","model":"m","usage":{"input_tokens":1,"output_tokens":0}}
DocDated ==
    [EmptyRecord EXCEPT
        !.Timestamp = Str(<<"2", "0", "2", "6", "-", "0", "2", "-", "1", "7", "T",
                            "0", "0", ":", "0", "0", ":", "0", "0", "Z">>),
        !.Model = Str(<<"m">>),
        !.Usage = [EmptyUsage EXCEPT !.InputTokens = Num(Lit(1)), !.OutputTokens = Num(Lit(0))]]

\* {"message":{"model":"o","usage":{"total_tokens":2}},"costUsd":0.5}
DocUndated ==
    [EmptyRecord EXCEPT
        !.Message = [EmptyMessage EXCEPT
                        !.Model = Str(<<"o">>),
                        !.Usage = [EmptyUsage EXCEPT !.TotalTokens2 = Num(Lit(2))]],
        !.CostUsd = Num(<<"0", ".", "5">>)]

\* {"timestamp":1771372800,"model":"m","usage":{"input":3,"cost":{"total":1.5}}}
DocEpoch ==
    [EmptyRecord EXCEPT
        !.Timestamp = Num(<<"1", "7", "7", "1", "3", "7", "2", "8", "0", "0">>),
        !.Model = Str(<<"m">>),
        !.Usage = [EmptyUsage EXCEPT !.Input = Num(Lit(3)), !.Cost = Obj,
                                     !.CostTotal = Num(<<"1", ".", "5">>)]]

\* {"type":"user","message":{"role":"user"}}: valid JSON without usage.
DocNoUsage == [EmptyRecord EXCEPT !.Message = EmptyMessage]

\* {"model":"m","usage":{"total_tokens":-4,"input_tokens":0,"output_tokens":"x"}}
DocZero ==
    [EmptyRecord EXCEPT
        !.Model = Str(<<"m">>),
        !.Usage = [EmptyUsage EXCEPT !.TotalTokens = Num(<<"-", "4">>),
                                     !.InputTokens = Num(Lit(0)),
                                     !.OutputTokens = Str(<<"x">>)]]

DocKeys == {"a", "u", "x", "n", "z"}

Catalogue(k) ==
    CASE k = "a" -> DocDated
      [] k = "u" -> DocUndated
      [] k = "x" -> DocEpoch
      [] k = "n" -> DocNoUsage
      [] k = "z" -> DocZero

\* The bytes of the JSON document with key k.
LineOf(k) == <<"{", k, "}">>

\* json.Unmarshal(line, &rec): the decoded document, or BadLine.
Decode(line) ==
    IF Len(line) = 3 /\ line[1] = "{" /\ line[3] = "}" /\ line[2] \in DocKeys
    THEN Catalogue(line[2])
    ELSE BadLine

\* line = bytes.TrimSpace(line); if len(line) == 0 { return nil }
ParseTrimmed(agentName, line, tz) ==
    IF Len(line) = 0 THEN <<>> ELSE ParseLine(agentName, Decode(line), tz)

\* ParseLine on the bytes of a line.
ParseLineBytes(agentName, raw, tz) == ParseTrimmed(agentName, TrimSpace(raw), tz)

\* bufio's dropCR.
dropCR(data) ==
    IF data # <<>> /\ data[Len(data)] = "\r" THEN SubSeq(data, 1, Len(data) - 1) ELSE data

RECURSIVE ScanLines(_), SplitAt(_, _)
\* The tokens bufio.Scanner yields with the default split function
\* (bufio.ScanLines): lines without their terminator, and a final
\* unterminated non-empty remainder.
ScanLines(data) ==
    IF data = <<>> THEN <<>> ELSE SplitAt(data, IndexOf(data, "\n"))

SplitAt(data, i) ==
    IF i = 0 THEN <<dropCR(data)>>
    ELSE <<dropCR(SubSeq(data, 1, i - 1))>> \o ScanLines(SubSeq(data, i + 1, Len(data)))

(***************************************************************************)
(* The cache: usage_records as the sequence of its rows in rowid order,    *)
(* file_state as a function of the file path.                              *)
(***************************************************************************)
FileA == [AgentName |-> <<"a">>, Path |-> <<"a", "/", "x">>]

FileB == [AgentName |-> <<"b">>, Path |-> <<"b", "/", "x">>]

Universe == {FileA, FileB}

Paths == {sf.Path : sf \in Universe}

NoRow == [present |-> FALSE, agent_name |-> <<>>, last_offset |-> 0]

\* The state ensureSchema leaves in a new store.
EmptyDB == [recs |-> <<>>, fstate |-> [p \in Paths |-> NoRow]]

Row(rec, path, offset) ==
    [agent_name |-> rec.AgentName, model |-> rec.Model, date_key |-> rec.DateKey,
     tokens |-> rec.Tokens, cost |-> rec.Cost, hour |-> rec.Hour, dow |-> rec.DOW,
     source_file |-> path, source_offset |-> offset]

\* idx_rec_source_line: the row would repeat a (source_file, source_offset).
UniqueConflict(recs, row) ==
    \E i \in 1..Len(recs) :
        /\ recs[i].source_file = row.source_file
        /\ recs[i].source_offset = row.source_offset

\* An INSERT into a table without the unique index.
InsertUnchecked(recs, row) == [err |-> FALSE, recs |-> Append(recs, row)]

\* INSERT INTO usage_records: fails on the unique index.
InsertRecord(recs, row) ==
    IF UniqueConflict(recs, row) THEN [err |-> TRUE, recs |-> recs]
    ELSE [err |-> FALSE, recs |-> Append(recs, row)]

\* A DELETE without its WHERE clause.
DeleteAllRecords(recs, path) == <<>>

\* DELETE FROM usage_records WHERE source_file = ?
DeleteFileRecords(recs, path) ==
    SelectSeq(recs, LAMBDA r : r.source_file # path)

\* The I/O and SQL steps of syncOneFile that can fail.
FileFaults == {"none", "lookup", "stat", "delete", "reset", "open", "seek",
               "insert", "scan", "upsert"}

\* What syncOneFile returns: (synced, newRecords, err), with the state it
\* leaves in the transaction (on an error, the writes made before it) and
\* whether it took the truncation branch.
FileResult(err, synced, n, t, truncated) ==
    [err |-> err, synced |-> synced, newRecords |-> n, tx |-> t, truncated |-> truncated]

ScanResult(err, recs, newOffset, batchCount) ==
    [err |-> err, recs |-> recs, newOffset |-> newOffset, batchCount |-> batchCount]

RECURSIVE scanLoop(_, _, _, _, _, _, _), scanLine(_, _, _, _, _, _, _, _),
          scanInsert(_, _, _, _, _, _, _, _)
\* The scanner loop: every line advances newOffset by len(raw) + 1 and is
\* inserted, tagged with the offset before the advance, when it parses.
scanLoop(recs, sf, lines, newOffset, batchCount, fault, tz) ==
    IF lines = <<>> THEN ScanResult(FALSE, recs, newOffset, batchCount)
    ELSE scanLine(recs, sf, lines, newOffset, batchCount, fault, tz,
                  ParseLineBytes(sf.AgentName, Head(lines), tz))

\* rec := ParseLine(sf.AgentName, raw); if rec == nil { continue }
scanLine(recs, sf, lines, lineOffset, batchCount, fault, tz, rec) ==
    IF rec = <<>>
    THEN scanLoop(recs, sf, Tail(lines), lineOffset + Len(Head(lines)) + 1,
                  batchCount, fault, tz)
    ELSE scanInsert(recs, sf, lines, lineOffset, batchCount, fault, tz,
                    InsertRecord(recs, Row(rec[1], sf.Path, lineOffset)))

\* insertRec.Exec(...); batchCount++
scanInsert(recs, sf, lines, lineOffset, batchCount, fault, tz, ins) ==
    IF fault = "insert" \/ ins.err
    THEN ScanResult(TRUE, recs, lineOffset + Len(Head(lines)) + 1, batchCount)
    ELSE scanLoop(ins.recs, sf, Tail(lines), lineOffset + Len(Head(lines)) + 1,
                  batchCount + 1, fault, tz)

\* The UPDATE alone: no row is inserted for a file that has none.
UpdateFileState(fstate, sf, newOffset) ==
    IF fstate[sf.Path].present
    THEN [fstate EXCEPT ![sf.Path].last_offset = newOffset]
    ELSE fstate

\* UPDATE file_state SET last_offset = ? / INSERT INTO file_state.
UpsertFileState(fstate, sf, newOffset) ==
    [fstate EXCEPT ![sf.Path] =
        [present |-> TRUE,
         agent_name |-> IF @.present THEN @.agent_name ELSE sf.AgentName,
         last_offset |-> newOffset]]

\* A finish that stores the number of bytes this scan advanced by instead
\* of the offset it reached.
finishScanBytesRead(t1, sf, fault, truncated, scan) ==
    IF scan.err \/ fault \in {"scan", "upsert"}
    THEN FileResult(TRUE, FALSE, 0, [recs |-> scan.recs, fstate |-> t1.fstate], truncated)
    ELSE FileResult(FALSE, TRUE, scan.batchCount,
                    [recs |-> scan.recs,
                     fstate |-> UpsertFileState(t1.fstate, sf,
                                    scan.newOffset - t1.fstate[sf.Path].last_offset)],
                    truncated)

\* After the scanner loop: scanner.Err, then the file_state upsert.
finishScan(t1, sf, fault, truncated, scan) ==
    IF scan.err \/ fault \in {"scan", "upsert"}
    THEN FileResult(TRUE, FALSE, 0, [recs |-> scan.recs, fstate |-> t1.fstate], truncated)
    ELSE FileResult(FALSE, TRUE, scan.batchCount,
                    [recs |-> scan.recs,
                     fstate |-> UpsertFileState(t1.fstate, sf, scan.newOffset)],
                    truncated)

\* From "if fi.Size() <= lastOffset" on: open, seek, scan.
readNew(t1, sf, data, lastOffset, fault, tz, truncated) ==
    IF Len(data) <= lastOffset THEN FileResult(FALSE, FALSE, 0, t1, truncated)
    ELSE IF fault = "open" THEN FileResult(TRUE, FALSE, 0, t1, truncated)
    ELSE IF lastOffset > 0 /\ fault = "seek" THEN FileResult(TRUE, FALSE, 0, t1, truncated)
    ELSE finishScan(t1, sf, fault, truncated,
                    scanLoop(t1.recs, sf, ScanLines(SubSeq(data, lastOffset + 1, Len(data))),
                             lastOffset, 0, fault, tz))

\* The truncation branch: DELETE the file's records, reset its offset.
truncateFile(t, sf, data, fault, tz) ==
    IF fault = "delete" THEN FileResult(TRUE, FALSE, 0, t, TRUE)
    ELSE IF fault = "reset"
    THEN FileResult(TRUE, FALSE, 0,
                    [recs |-> DeleteFileRecords(t.recs, sf.Path), fstate |-> t.fstate], TRUE)
    ELSE readNew([recs |-> DeleteFileRecords(t.recs, sf.Path),
                  fstate |-> [t.fstate EXCEPT ![sf.Path].last_offset = 0]],
                 sf, data, 0, fault, tz, TRUE)

syncOneFile(t, sf, data, fault, tz) ==
    IF fault \in {"lookup", "stat"} THEN FileResult(TRUE, FALSE, 0, t, FALSE)
    ELSE IF t.fstate[sf.Path].present /\ Len(data) < t.fstate[sf.Path].last_offset
    THEN truncateFile(t, sf, data, fault, tz)
    ELSE readNew(t, sf, data,
                 IF t.fstate[sf.Path].present THEN t.fstate[sf.Path].last_offset ELSE 0,
                 fault, tz, FALSE)

\* The order of IterSessionFiles: agent directories by name (os.ReadDir),
\* each directory's files by path (sort.Strings).
FileBefore(f, g) ==
    \/ StrLess(f.AgentName, g.AgentName)
    \/ f.AgentName = g.AgentName /\ StrLess(f.Path, g.Path)

IterSessionFiles(files) ==
    CHOOSE q \in [1..Cardinality(files) -> files] :
        \A i, j \in 1..Cardinality(files) : i < j => FileBefore(q[i], q[j])

ZeroResult == [NewRecords |-> 0, SyncedFiles |-> 0, SkippedFiles |-> 0]

\* A rollback that only releases the savepoint: the failed file's writes stay.
rollbackNothing(savepoint, dirty) == dirty

\* ROLLBACK TO file_sync; RELEASE file_sync: the transaction is back at the
\* state the savepoint recorded.
rollbackFileSyncSavepoint(savepoint, dirty) == savepoint

(***************************************************************************)
(* CollectStats: the aggregation queries.  Costs are in tenths; a rounded  *)
(* cost is in units of 10^-precision.                                      *)
(***************************************************************************)
\* float64(int(f*p + 0.5)) / p: int() truncates toward zero.
roundFloat(f, precision) ==
    IF f >= 0 THEN f * 10 ^ (precision - 1) ELSE f * 10 ^ (precision - 1) + 1

\* The old filter: rows dated "unknown" pass every range.
dateWhereUnknownPasses(row, startDate, endDate) ==
    IF startDate # <<>> \/ endDate # <<>>
    THEN \/ row.date_key = UNKNOWN
         \/ /\ (startDate # <<>> => StrLE(startDate, row.date_key))
            /\ (endDate # <<>> => StrLE(row.date_key, endDate))
    ELSE TRUE

\* A filter with exclusive bounds.
dateWhereExclusive(row, startDate, endDate) ==
    IF startDate # <<>> \/ endDate # <<>>
    THEN /\ row.date_key # UNKNOWN
         /\ (startDate # <<>> => StrLess(startDate, row.date_key))
         /\ (endDate # <<>> => StrLess(row.date_key, endDate))
    ELSE TRUE

\* The WHERE clause built from the bounds: date_key != 'unknown' AND
\* (date_key >= ? AND date_key <= ?) over the bounds given, or 1=1.
dateWhere(row, startDate, endDate) ==
    IF startDate # <<>> \/ endDate # <<>>
    THEN /\ row.date_key # UNKNOWN
         /\ (startDate # <<>> => StrLE(startDate, row.date_key))
         /\ (endDate # <<>> => StrLE(row.date_key, endDate))
    ELSE TRUE

\* A heatmap filter that lets rows without hour and dow through.
heatWhereAnyHour(row, startDate, endDate) == dateWhere(row, startDate, endDate)

\* hour IS NOT NULL AND dow IS NOT NULL AND (dateWhere)
heatWhere(row, startDate, endDate) ==
    row.hour # NilInt /\ row.dow # NilInt /\ dateWhere(row, startDate, endDate)

RECURSIVE SumOver(_, _)
\* SUM(column) over the rows.
SumOver(rows, column) ==
    IF rows = <<>> THEN 0 ELSE Head(rows)[column] + SumOver(Tail(rows), column)

\* One row of a GROUP BY result.
GroupTotal(key, group) ==
    [key |-> key, tokens |-> SumOver(group, "tokens"), records |-> Len(group),
     cost |-> roundFloat(SumOver(group, "cost"), 6)]

\* SELECT key, SUM(tokens), COUNT(*), SUM(cost) ... GROUP BY key
GroupTotals(rows, Key(_)) ==
    {GroupTotal(Key(rows[i]), SelectSeq(rows, LAMBDA r : Key(r) = Key(rows[i]))) :
        i \in 1..Len(rows)}

\* The sequences an ORDER BY can deliver: rows that compare equal come in
\* any order.
Orderings(S, Before(_, _)) ==
    {q \in [1..Cardinality(S) -> S] :
        \A i, j \in 1..Cardinality(S) : i < j => (q[i] # q[j] /\ ~Before(q[j], q[i]))}

\* ORDER BY SUM(tokens) DESC
TokensDesc(a, b) == a.tokens > b.tokens

\* An ORDER BY with the CASE the wrong way round: 'unknown' comes first.
DailyUnknownFirst(a, b) ==
    IF (a.key = UNKNOWN) # (b.key = UNKNOWN) THEN a.key = UNKNOWN ELSE StrLess(a.key, b.key)

\* ORDER BY CASE WHEN date_key = 'unknown' THEN 1 ELSE 0 END, date_key
DailyOrder(a, b) ==
    IF (a.key = UNKNOWN) # (b.key = UNKNOWN) THEN b.key = UNKNOWN ELSE StrLess(a.key, b.key)

\* ORDER BY dow, hour
HeatOrder(a, b) == a.dow < b.dow \/ (a.dow = b.dow /\ a.hour < b.hour)

AgentKey(r) == r.agent_name

ModelKey(r) == r.model

DateKey(r) == r.date_key

HeatKey(r) == <<r.dow, r.hour>>

\* SELECT dow, hour, SUM(tokens), SUM(cost) ... GROUP BY dow, hour
HeatCells(rows) ==
    {[dow |-> g.key[1], hour |-> g.key[2], tokens |-> g.tokens, cost |-> g.cost] :
        g \in GroupTotals(rows, HeatKey)}

\* A nil slice: the marker stands in the place of the elements.
NilSlice == <<[nil |-> TRUE]>>

\* var list []T; for rows.Next() { list = append(list, ...) }: nil when the
\* query gave no row.
scanRows(q) == IF q = <<>> THEN NilSlice ELSE q

\* A CollectStats without the nil checks.
keepNil(list) == list

\* if list == nil { list = []T{} }
neverNil(list) == IF list = NilSlice THEN <<>> ELSE list

\* len(list)
sliceLen(list) == IF list = NilSlice THEN 0 ELSE Len(list)

\* StatsResponse{}, returned with an error.
ErrorResponse ==
    [err |-> TRUE, Sync |-> ZeroResult,
     Summary |-> [TotalTokens |-> 0, TotalCost |-> 0, UsageRecords |-> 0, SessionFiles |-> 0,
                  AgentCount |-> 0, ModelCount |-> 0, DayCount |-> 0],
     AgentTotals |-> NilSlice, ModelTotals |-> NilSlice, DailyTokens |-> NilSlice,
     Heatmap |-> NilSlice]

\* The response built from the query results.
StatsResponse(syncResult, matching, sessionFiles, agents, models, daily, heatmap) ==
    [err |-> FALSE, Sync |-> syncResult,
     Summary |-> [TotalTokens |-> SumOver(matching, "tokens"),
                  TotalCost |-> roundFloat(SumOver(matching, "cost"), 6),
                  UsageRecords |-> Len(matching),
                  SessionFiles |-> sessionFiles,
                  AgentCount |-> sliceLen(agents), ModelCount |-> sliceLen(models),
                  DayCount |-> sliceLen(daily)],
     AgentTotals |-> agents, ModelTotals |-> models, DailyTokens |-> daily,
     Heatmap |-> heatmap]

\* The responses CollectStats can build from the cache d: one per order the
\* queries can deliver their rows in.
Responses(d, syncResult, matching, heat) ==
    {StatsResponse(syncResult, matching,
                   Cardinality({p \in Paths : d.fstate[p].present}),
                   neverNil(scanRows(a)), neverNil(scanRows(m)),
                   neverNil(scanRows(dl)), neverNil(scanRows(h))) :
        a \in Orderings(GroupTotals(matching, AgentKey), TokensDesc),
        m \in Orderings(GroupTotals(matching, ModelKey), TokensDesc),
        dl \in Orderings(GroupTotals(matching, DateKey), DailyOrder),
        h \in Orderings(HeatCells(heat), HeatOrder)}

CollectStatsResponses(d, syncResult, startDate, endDate) ==
    Responses(d, syncResult,
              SelectSeq(d.recs, LAMBDA r : dateWhere(r, startDate, endDate)),
              SelectSeq(d.recs, LAMBDA r : heatWhere(r, startDate, endDate)))

(***************************************************************************)
(* State                                                                   *)
(***************************************************************************)
VARIABLES
    tz,       \* the process's zone offset, seconds east of UTC
    disk,     \* disk[path]: the bytes of the session file
    db,       \* the committed cache: [recs, fstate]
    lock,     \* syncMu: 0 when free, else the worker holding it
    pc,       \* pc[w]: where worker w is in its call
    tx,       \* tx[w]: the state inside w's open transaction
    queue,    \* queue[w]: the files w's pass has still to process
    result,   \* result[w]: the SyncResult w's pass has counted so far
    ret,      \* ret[w]: what w's last Sync call returned
    resp,     \* resp[w]: what w's CollectStats call returned
    hist,     \* bookkeeping about the passes, read by the properties only
    probe     \* the input and output of the last pure-function application,
              \* or the process around the HTTP server: its signal context,
              \* its listener and its PID file

vars == <<tz, disk, db, lock, pc, tx, queue, result, ret, resp, hist, probe>>

\* Bounds of the model.
MaxLines == 2

Workers == DOMAIN pc

\* The documents the writers of the sync model append.
SyncKeys == {"a"}

NoReturn == [err |-> FALSE, res |-> ZeroResult]

NoStatus == [p \in Paths |-> "none"]

HistInit ==
    [pre     |-> EmptyDB,   \* the committed cache when the running or last pass began
     status  |-> NoStatus,  \* per file: "none", "io", "failed", "nothing", "synced"
     repeat  |-> FALSE]     \* the pass began right after a pass with no failure

NoProbe == [op |-> "none"]

NoResp == [state |-> "none"]

\* A new store and no session files, in a zone `zone` seconds east of UTC.
InitIn(zone, workers) ==
    /\ tz = zone
    /\ disk = [p \in Paths |-> <<>>]
    /\ db = EmptyDB
    /\ lock = 0
    /\ pc = [w \in workers |-> "idle"]
    /\ tx = [w \in workers |-> EmptyDB]
    /\ queue = [w \in workers |-> <<>>]
    /\ result = [w \in workers |-> ZeroResult]
    /\ ret = [w \in workers |-> NoReturn]
    /\ resp = [w \in workers |-> NoResp]
    /\ hist = HistInit

InitWith(workers) == InitIn(0, workers)

SyncInit == InitWith({1}) /\ probe = NoProbe

(***************************************************************************)
(* The writers of the session files                                        *)
(***************************************************************************)
AtLineStart(data) == IF data = <<>> THEN TRUE ELSE data[Len(data)] = "\n"

NoPassRunning == \A w \in Workers : pc[w] # "files"

\* A write to a file: the callers have consumed what their calls returned,
\* and the bookkeeping about the last pass is dropped.
Written(p) ==
    /\ pc' = [w \in Workers |-> "idle"]
    /\ ret' = [w \in Workers |-> NoReturn]
    /\ resp' = [w \in Workers |-> NoResp]
    /\ hist' = HistInit
    /\ UNCHANGED <<tz, db, lock, tx, queue, result, probe>>

\* A writer appends one complete line.
AppendLine(p, k) ==
    /\ NoPassRunning
    /\ AtLineStart(disk[p])
    /\ Len(ScanLines(disk[p])) < MaxLines
    /\ disk' = [disk EXCEPT ![p] = @ \o LineOf(k) \o <<"\n">>]
    /\ Written(p)

\* A writer that ends its lines with "\r\n" appends one complete line.
AppendCRLF(p, k) ==
    /\ NoPassRunning
    /\ AtLineStart(disk[p])
    /\ Len(ScanLines(disk[p])) < MaxLines
    /\ disk' = [disk EXCEPT ![p] = @ \o LineOf(k) \o <<"\r", "\n">>]
    /\ Written(p)

\* The files whose writer can be caught in the middle of a line; the writers
\* of the other files are only seen between whole lines.
PartialPaths == {FileA.Path}

\* A writer's append is only partly on disk: the first n bytes of a line.
AppendPartial(p, k, n) ==
    /\ NoPassRunning
    /\ AtLineStart(disk[p])
    /\ Len(ScanLines(disk[p])) < MaxLines
    /\ disk' = [disk EXCEPT ![p] = @ \o SubSeq(LineOf(k), 1, n)]
    /\ Written(p)

\* The rest of a partly written line reaches the disk.
CompleteLine(p) ==
    /\ NoPassRunning
    /\ ~AtLineStart(disk[p])
    /\ disk' = [disk EXCEPT ![p] =
                   IF @[Len(@)] = "}" THEN @ \o <<"\n">> ELSE @ \o <<"}", "\n">>]
    /\ Written(p)

\* The file is truncated (the first half of a rewrite or a rotation).
Truncate(p) ==
    /\ NoPassRunning
    /\ disk[p] # <<>>
    /\ disk' = [disk EXCEPT ![p] = <<>>]
    /\ Written(p)

(***************************************************************************)
(* Sync                                                                    *)
(***************************************************************************)
BeginFaults == {"none", "enum", "begin", "prepare"}

StepFaults == FileFaults \cup {"savepoint", "rollback", "release"}

\* A failing Sync whose transaction is committed all the same.
SyncFailsCommitting(w) ==
    /\ ret' = [ret EXCEPT ![w] = [err |-> TRUE, res |-> ZeroResult]]
    /\ pc' = [pc EXCEPT ![w] = "returned"]
    /\ lock' = 0
    /\ queue' = [queue EXCEPT ![w] = <<>>]
    /\ result' = [result EXCEPT ![w] = ZeroResult]
    /\ db' = tx[w]
    /\ tx' = [tx EXCEPT ![w] = EmptyDB]
    /\ UNCHANGED <<tz, disk, resp, probe>>

\* A failing Sync that returns without the deferred syncMu.Unlock.
SyncFailsLocked(w) ==
    /\ ret' = [ret EXCEPT ![w] = [err |-> TRUE, res |-> ZeroResult]]
    /\ pc' = [pc EXCEPT ![w] = "returned"]
    /\ lock' = w
    /\ queue' = [queue EXCEPT ![w] = <<>>]
    /\ result' = [result EXCEPT ![w] = ZeroResult]
    /\ tx' = [tx EXCEPT ![w] = EmptyDB]
    /\ UNCHANGED <<tz, disk, db, resp, probe>>

\* Sync returns an error: the deferred tx.Rollback and syncMu.Unlock run.
SyncFails(w) ==
    /\ ret' = [ret EXCEPT ![w] = [err |-> TRUE, res |-> ZeroResult]]
    /\ pc' = [pc EXCEPT ![w] = "returned"]
    /\ lock' = 0
    /\ queue' = [queue EXCEPT ![w] = <<>>]
    /\ result' = [result EXCEPT ![w] = ZeroResult]
    /\ tx' = [tx EXCEPT ![w] = EmptyDB]
    /\ UNCHANGED <<tz, disk, db, resp, probe>>

\* The last call committed its pass and nothing was written since.
AfterPass == \E w \in Workers : pc[w] \in {"returned", "done"} /\ ~ret[w].err

\* ... and no file failed in it.
AfterCleanPass == AfterPass /\ \A p \in Paths : hist.status[p] \in {"nothing", "synced"}

\* A pass that begins right after a committed pass keeps which files that
\* one failed to read: they are the files this pass retries.
BeginHist ==
    [pre     |-> db,
     status  |-> [p \in Paths |->
                    IF AfterPass /\ hist.status[p] = "io" THEN "io" ELSE "none"],
     repeat  |-> AfterCleanPass]

\* A mutex that never makes a caller wait.
LockNeverHeld == TRUE

\* syncMu.Lock() returns only when no other call holds the mutex.
LockFree == lock = 0

\* syncMu.Lock, IterSessionFiles, db.Begin, tx.Prepare.
\* Sync up to the loop, IterSessionFiles having returned `files`.
SyncBeginOn(w, fault, files) ==
    /\ pc[w] \in {"idle", "waiting", "returned", "done"}
    /\ LockFree
    /\ hist' = BeginHist
    /\ IF fault # "none"
       THEN SyncFails(w)
       ELSE /\ lock' = w
            /\ pc' = [pc EXCEPT ![w] = "files"]
            /\ tx' = [tx EXCEPT ![w] = db]
            /\ queue' = [queue EXCEPT ![w] = files]
            /\ result' = [result EXCEPT ![w] = ZeroResult]
            /\ ret' = [ret EXCEPT ![w] = NoReturn]
            /\ UNCHANGED <<tz, disk, db, resp, probe>>

SyncBegin(w, fault) == SyncBeginOn(w, fault, IterSessionFiles(Universe))

\* "io": the file could not be read (os.Stat, os.Open, the scanner).
StepHist(sf, r, fault) ==
    [hist EXCEPT
        !.status[sf.Path] =
            IF r.err
            THEN (IF fault \in {"stat", "open", "scan"} THEN "io" ELSE "failed")
            ELSE IF r.synced THEN "synced" ELSE "nothing"]

\* The loop body after syncOneFile returned r: ROLLBACK TO + RELEASE on an
\* error, RELEASE otherwise, and the counters.
FileDone(w, sf, fault, r) ==
    IF fault = "savepoint" THEN SyncFails(w) /\ UNCHANGED hist
    ELSE IF r.err /\ fault = "rollback" THEN SyncFails(w) /\ UNCHANGED hist
    ELSE IF ~r.err /\ fault = "release" THEN SyncFails(w) /\ UNCHANGED hist
    ELSE /\ tx' = [tx EXCEPT ![w] =
                      IF r.err THEN rollbackFileSyncSavepoint(tx[w], r.tx) ELSE r.tx]
         /\ queue' = [queue EXCEPT ![w] = Tail(@)]
         /\ result' = [result EXCEPT ![w] =
               IF r.err \/ ~r.synced
               THEN [@ EXCEPT !.SkippedFiles = @ + 1]
               ELSE [@ EXCEPT !.SyncedFiles = @ + 1,
                              !.NewRecords = @ + r.newRecords]]
         /\ hist' = StepHist(sf, r, fault)
         /\ UNCHANGED <<tz, disk, db, lock, pc, ret, resp, probe>>

\* One iteration of the loop over the files: SAVEPOINT, syncOneFile, then
\* the rollback or release.
SyncFile(w, fault) ==
    /\ pc[w] = "files"
    /\ queue[w] # <<>>
    /\ FileDone(w, Head(queue[w]), fault,
                syncOneFile(tx[w], Head(queue[w]), disk[Head(queue[w]).Path], fault, tz))

\* tx.Commit and the return of Sync.
SyncCommit(w, ok) ==
    /\ pc[w] = "files"
    /\ queue[w] = <<>>
    /\ UNCHANGED hist
    /\ IF ok
       THEN /\ db' = tx[w]
            /\ ret' = [ret EXCEPT ![w] = [err |-> FALSE, res |-> result[w]]]
            /\ pc' = [pc EXCEPT ![w] = "returned"]
            /\ lock' = 0
            /\ tx' = [tx EXCEPT ![w] = EmptyDB]
            /\ result' = [result EXCEPT ![w] = ZeroResult]
            /\ UNCHANGED <<tz, disk, queue, resp, probe>>
       ELSE SyncFails(w)

\* CollectStats after its Sync call returned: the error is passed on, or the
\* aggregation queries run on the committed cache.
CollectStats(w, startDate, endDate) ==
    /\ pc[w] = "returned"
    /\ pc' = [pc EXCEPT ![w] = "done"]
    /\ probe' = [op |-> "stats", startDate |-> startDate, endDate |-> endDate]
    /\ IF ret[w].err
       THEN resp' = [resp EXCEPT ![w] = ErrorResponse]
       ELSE \E r \in CollectStatsResponses(db, ret[w].res, startDate, endDate) :
                resp' = [resp EXCEPT ![w] = r]
    /\ UNCHANGED <<tz, disk, db, lock, tx, queue, result, ret, hist>>

Next ==
    \/ \E p \in Paths, k \in SyncKeys : AppendLine(p, k)
    \/ \E p \in PartialPaths, k \in SyncKeys, n \in {2, 3} : AppendPartial(p, k, n)
    \/ \E p \in Paths : CompleteLine(p)
    \/ \E p \in Paths : Truncate(p)
    \/ \E w \in Workers, fault \in BeginFaults : SyncBegin(w, fault)
    \/ \E w \in Workers, fault \in StepFaults : SyncFile(w, fault)
    \/ \E w \in Workers, ok \in BOOLEAN : SyncCommit(w, ok)

Spec == SyncInit /\ [][Next]_vars

(***************************************************************************)
(* Two concurrent callers of CollectStats                                  *)
(***************************************************************************)
ConcInit == InitWith({1, 2}) /\ probe = NoProbe

\* The date bounds the callers pass.
ConcDates == {<<>>, <<"2", "0", "2", "6", "-", "0", "2", "-", "1", "7">>}

NextConc ==
    \/ \E p \in Paths, k \in SyncKeys : AppendLine(p, k)
    \/ \E w \in Workers : SyncBegin(w, "none")
    \/ \E w \in Workers : SyncFile(w, "none")
    \/ \E w \in Workers, ok \in BOOLEAN : SyncCommit(w, ok)
    \/ \E w \in Workers, d \in ConcDates : CollectStats(w, d, d)

SpecConc == ConcInit /\ [][NextConc]_vars

(***************************************************************************)
(* Sync passes between appends of complete lines                           *)
(***************************************************************************)
\* The documents the writers append: two that give a record, one whose
\* token total is zero.
AppendKeys == {"a", "u", "z"}

NextAppend ==
    \/ \E p \in Paths, k \in AppendKeys : AppendLine(p, k)
    \/ \E k \in SyncKeys : AppendCRLF(FileA.Path, k)
    \/ \E w \in Workers : SyncBegin(w, "none")
    \/ \E w \in Workers : SyncFile(w, "none")
    \/ \E w \in Workers : SyncCommit(w, TRUE)

SpecAppend == SyncInit /\ [][NextAppend]_vars

(***************************************************************************)
(* One instant written as a timestamp in four ways                         *)
(***************************************************************************)
\* The local zones of the process, in seconds east of UTC.
TimeZones == {0 - 18000, 0, 32400}

\* The days (since 1970-01-01) and the seconds of the day of the instants.
TimeDays ==
    {30, DaysFromCivil(2024, 2, 29), DaysFromCivil(2026, 2, 17), DaysFromCivil(2026, 12, 31)}

TimeSeconds == {0, 7200, 43200, 72000, 86399}

RECURSIVE Decimal(_)
\* The decimal digits of n >= 0.
Decimal(n) == IF n < 10 THEN <<DigitChar(n)>> ELSE Decimal(n \div 10) \o <<DigitChar(n % 10)>>

\* The instant as a JSON number of unix seconds and of milliseconds.
UnixSeconds(day, sod) == Num(Decimal(day * SecondsPerDay + sod))

UnixMillis(day, sod) == Num(Decimal(day * SecondsPerDay + sod) \o <<"0", "0", "0">>)

\* The instant as "YYYY-MM-DDThh:mm:ssZ" and its calendar date "YYYY-MM-DD".
IsoZ(day, sod) ==
    Str(FormatCivil(CivilFromDays(day)) \o <<"T">> \o Pad2(sod \div 3600) \o <<":">>
        \o Pad2((sod \div 60) % 60) \o <<":">> \o Pad2(sod % 60) \o <<"Z">>)

BareDay(day) == Str(FormatCivil(CivilFromDays(day)))

TimeInit ==
    /\ \E zone \in TimeZones : InitIn(zone, {1})
    /\ \E day \in TimeDays, sod \in TimeSeconds :
          probe = [op |-> "instant", day |-> day, sod |-> sod, keys |-> <<>>]

\* parseTimestampToDate on the four timestamps of the instant.
NormalizeInstant ==
    /\ probe.op = "instant"
    /\ probe' = [probe EXCEPT
                    !.op = "dates",
                    !.keys = <<parseTimestampToDate(UnixSeconds(probe.day, probe.sod), tz),
                               parseTimestampToDate(UnixMillis(probe.day, probe.sod), tz),
                               parseTimestampToDate(IsoZ(probe.day, probe.sod), tz),
                               parseTimestampToDate(BareDay(probe.day), tz)>>]
    /\ UNCHANGED <<tz, disk, db, lock, pc, tx, queue, result, ret, resp, hist>>

NextTime == NormalizeInstant

SpecTime == TimeInit /\ [][NextTime]_vars

(***************************************************************************)
(* ParseLine on lines with a timestamp and a cost, and the row stored      *)
(***************************************************************************)
LineDay == DaysFromCivil(2026, 2, 17)

\* The "timestamp" members of the lines: absent, the numeric and string
\* forms of two instants, and values that are no timestamp.
LineTimestamps ==
    {Null, Str(<<>>), Str(<<"x">>), Bool(TRUE), BareDay(LineDay)}
    \cup {UnixSeconds(LineDay, sod) : sod \in {7200, 72000}}
    \cup {UnixMillis(LineDay, sod) : sod \in {7200, 72000}}
    \cup {IsoZ(LineDay, sod) : sod \in {7200, 72000}}

\* The cost members of the lines: <<costUsd, usage.cost, usage.cost.total>>.
LineCosts ==
    {<<Null, Null, Null>>,
     <<Num(<<"0", ".", "5">>), Null, Null>>,
     <<Num(<<"-", "0", ".", "5">>), Null, Null>>,
     <<Num(Lit(0)), Num(<<"1", ".", "5">>), Null>>,
     <<Null, Num(<<"1", ".", "5">>), Null>>,
     <<Null, Num(<<"-", "1", ".", "5">>), Null>>,
     <<Null, Obj, Num(<<"1", ".", "5">>)>>,
     <<Null, Obj, Num(<<"-", "1", ".", "5">>)>>,
     <<Null, Str(<<"2">>), Null>>,
     <<Null, Obj, Null>>,
     <<Null, Obj, Str(<<"2">>)>>,
     <<Num(<<"0", ".", "5">>), Obj, Num(<<"1", ".", "5">>)>>}

\* {"timestamp":ts,"costUsd":c[1],"usage":{"input_tokens":1,"cost":c[2]}},
\* or the same with the timestamp inside "message".
LineRecord(ts, inMessage, c) ==
    [EmptyRecord EXCEPT
        !.Timestamp = IF inMessage THEN Null ELSE ts,
        !.Message = IF inMessage THEN [EmptyMessage EXCEPT !.Timestamp = ts]
                    ELSE MessageAbsent,
        !.CostUsd = c[1],
        !.Usage = [EmptyUsage EXCEPT !.InputTokens = Num(Lit(1)),
                                     !.Cost = c[2], !.CostTotal = c[3]]]

LineRecords ==
    {LineRecord(ts, inMessage, c) :
        ts \in LineTimestamps, inMessage \in BOOLEAN, c \in LineCosts}

\* A line is about to be read by a pass, in one of the time zones.
LineInit ==
    /\ \E zone \in TimeZones : InitIn(zone, {1})
    /\ \E rec \in LineRecords : probe = [op |-> "line", rec |-> rec, out |-> <<>>]

\* rec := ParseLine(sf.AgentName, raw)
ParseRecord ==
    /\ probe.op = "line"
    /\ probe' = [probe EXCEPT !.op = "parsed",
                              !.out = ParseLine(FileA.AgentName, probe.rec, tz)]
    /\ UNCHANGED <<tz, disk, db, lock, pc, tx, queue, result, ret, resp, hist>>

\* insertRec.Exec(...) of the record at offset 0 of the file.
StoreRecord ==
    /\ probe.op = "parsed"
    /\ probe.out # <<>>
    /\ db' = [db EXCEPT
                 !.recs = InsertRecord(@, Row(probe.out[1], FileA.Path, 0)).recs]
    /\ probe' = [probe EXCEPT !.op = "stored"]
    /\ UNCHANGED <<tz, disk, lock, pc, tx, queue, result, ret, resp, hist>>

NextLine ==
    \/ ParseRecord
    \/ StoreRecord

SpecLine == LineInit /\ [][NextLine]_vars

(***************************************************************************)
(* CollectStats query by query, next to other callers and to the writers   *)
(***************************************************************************)
\* A writer appends a complete line while calls are under way.
AppendConcurrent(p, k) ==
    /\ AtLineStart(disk[p])
    /\ Len(ScanLines(disk[p])) < MaxLines
    /\ disk' = [disk EXCEPT ![p] = @ \o LineOf(k) \o <<"\n">>]
    /\ UNCHANGED <<tz, db, lock, pc, tx, queue, result, ret, resp, hist, probe>>

\* What a call of CollectStats holds before its first query.
NoResults(startDate, endDate) ==
    [stage |-> 1, startDate |-> startDate, endDate |-> endDate, matching |-> <<>>,
     files |-> 0, agents |-> NilSlice, models |-> NilSlice, daily |-> NilSlice,
     heatmap |-> NilSlice]

\* Sync has returned to CollectStats: the error is passed on, or the
\* queries are about to run.
StatsCall(w, startDate, endDate) ==
    /\ pc[w] = "returned"
    /\ IF ret[w].err
       THEN /\ pc' = [pc EXCEPT ![w] = "done"]
            /\ resp' = [resp EXCEPT ![w] = ErrorResponse]
       ELSE /\ pc' = [pc EXCEPT ![w] = "query"]
            /\ resp' = [resp EXCEPT ![w] = NoResults(startDate, endDate)]
    /\ UNCHANGED <<tz, disk, db, lock, tx, queue, result, ret, hist, probe>>

\* The rows of the cache d that the WHERE clause of the call r selects.
Selected(d, r) == SelectSeq(d.recs, LAMBDA row : dateWhere(row, r.startDate, r.endDate))

\* The results a call can hold after its next query ran on the cache d:
\* totals, file count, per-agent, per-model, daily, heatmap.
AfterQuery(d, r, rows) ==
    CASE r.stage = 1 -> {[r EXCEPT !.stage = 2, !.matching = rows]}
      [] r.stage = 2 ->
            {[r EXCEPT !.stage = 3,
                       !.files = Cardinality({p \in Paths : d.fstate[p].present})]}
      [] r.stage = 3 ->
            {[r EXCEPT !.stage = 4, !.agents = neverNil(scanRows(q))] :
                q \in Orderings(GroupTotals(rows, AgentKey), TokensDesc)}
      [] r.stage = 4 ->
            {[r EXCEPT !.stage = 5, !.models = neverNil(scanRows(q))] :
                q \in Orderings(GroupTotals(rows, ModelKey), TokensDesc)}
      [] r.stage = 5 ->
            {[r EXCEPT !.stage = 6, !.daily = neverNil(scanRows(q))] :
                q \in Orderings(GroupTotals(rows, DateKey), DailyOrder)}
      [] r.stage = 6 ->
            {[r EXCEPT !.stage = 7, !.heatmap = neverNil(scanRows(q))] :
                q \in Orderings(HeatCells(SelectSeq(d.recs,
                                     LAMBDA row : heatWhere(row, r.startDate, r.endDate))),
                                HeatOrder)}

\* The next query of the call runs on the committed cache as it is now.
StatsQuery(w) ==
    /\ pc[w] = "query"
    /\ resp[w].stage =< 6
    /\ \E r \in AfterQuery(db, resp[w], Selected(db, resp[w])) :
          resp' = [resp EXCEPT ![w] = r]
    /\ UNCHANGED <<tz, disk, db, lock, pc, tx, queue, result, ret, hist, probe>>

\* return StatsResponse{...}, nil
StatsReturn(w) ==
    /\ pc[w] = "query"
    /\ resp[w].stage = 7
    /\ pc' = [pc EXCEPT ![w] = "done"]
    /\ resp' = [resp EXCEPT ![w] =
                   StatsResponse(ret[w].res, @.matching, @.files, @.agents, @.models,
                                 @.daily, @.heatmap)]
    /\ UNCHANGED <<tz, disk, db, lock, tx, queue, result, ret, hist, probe>>

NextSnap ==
    \/ \E k \in SyncKeys : AppendConcurrent(FileA.Path, k)
    \/ \E w \in Workers : SyncBegin(w, "none")
    \/ \E w \in Workers : SyncFile(w, "none")
    \/ \E w \in Workers : SyncCommit(w, TRUE)
    \/ \E w \in Workers : StatsCall(w, <<>>, <<>>)
    \/ \E w \in Workers : StatsQuery(w)
    \/ \E w \in Workers : StatsReturn(w)

SpecSnap == ConcInit /\ [][NextSnap]_vars

(***************************************************************************)
(* The statements of the schema run on their own                           *)
(***************************************************************************)
\* The byte offsets the inserted rows carry.
SchemaOffsets == {0, 4}

\* The documents the inserted rows come from.
SchemaKeys == {"a", "u"}

\* A statement ran outside a pass: r is the table it leaves and whether it
\* failed.
ExecStatement(op, r) ==
    /\ \A w \in Workers : pc[w] = "idle"
    /\ db' = [db EXCEPT !.recs = r.recs]
    /\ probe' = [op |-> op, err |-> r.err]
    /\ UNCHANGED <<tz, disk, lock, pc, tx, queue, result, ret, resp, hist>>

\* INSERT INTO usage_records (...) VALUES (...)
ExecInsert(sf, offset, k) ==
    ExecStatement("insert",
                  InsertRecord(db.recs,
                               Row(ParseLine(sf.AgentName, Catalogue(k), tz)[1],
                                   sf.Path, offset)))

\* DELETE FROM usage_records WHERE source_file = ?
ExecDelete(p) ==
    ExecStatement("delete", [err |-> FALSE, recs |-> DeleteFileRecords(db.recs, p)])

NextSchema ==
    \/ \E sf \in Universe, offset \in SchemaOffsets, k \in SchemaKeys : ExecInsert(sf, offset, k)
    \/ \E p \in Paths : ExecDelete(p)

SpecSchema == SyncInit /\ [][NextSchema]_vars

(***************************************************************************)
(* openDB on the store file an earlier run left                            *)
(***************************************************************************)
\* The columns of usage_records in the schema constant.
UsageColumns ==
    {"id", "agent_name", "model", "date_key", "tokens", "cost", "hour", "dow",
     "source_file", "source_offset"}

requiredUsageCols == {"hour", "dow", "source_file", "source_offset"}

\* The column sets of the store files: no usage_records table, the current
\* table, and tables of earlier versions without some required columns.
StoreColumnSets == {{}} \cup {UsageColumns \ missing : missing \in SUBSET requiredUsageCols}

\* A row of a table that has only the columns cols.
Project(row, cols) ==
    IF DOMAIN row \subseteq cols THEN row
    ELSE [c \in (DOMAIN row) \cap cols |-> row[c]]

\* A store file: the columns of its usage_records table, its rows in rowid
\* order, and its file_state.
StoreOf(cols, d) ==
    [cols   |-> cols,
     recs   |-> [i \in 1..Len(d.recs) |-> Project(d.recs[i], cols)],
     fstate |-> d.fstate]

RECURSIVE SyncAll(_, _, _, _)
\* The cache a pass that fails nowhere commits: syncOneFile on each file in
\* turn, from the cache t, over the file contents d.
SyncAll(t, files, d, zone) ==
    IF files = <<>> THEN t
    ELSE SyncAll(syncOneFile(t, Head(files), d[Head(files).Path], "none", zone).tx,
                 Tail(files), d, zone)

\* PRAGMA table_info(usage_records) returned a row.
sawUsageTableColumn(store) == store.cols # {}

needsRebuild(store) ==
    sawUsageTableColumn(store) /\ \E c \in requiredUsageCols : c \notin store.cols

\* The statements of openDB that can fail.
OpenFaults == {"none", "drop_usage", "drop_state", "schema"}

SchemaResult(err, store) == [err |-> err, store |-> store]

\* A store file without usage_records.
WithoutUsage(store) == [cols |-> {}, recs |-> <<>>, fstate |-> store.fstate]

\* A store file without file_state.
WithoutFileState(store) == [store EXCEPT !.fstate = EmptyDB.fstate]

\* A rebuild that drops usage_records only.
dropUsageOnly(store, fault) ==
    IF fault = "drop_usage" THEN SchemaResult(TRUE, store)
    ELSE SchemaResult(FALSE, WithoutUsage(store))

\* DROP TABLE IF EXISTS usage_records; DROP TABLE IF EXISTS file_state.
dropTables(store, fault) ==
    IF fault = "drop_usage" THEN SchemaResult(TRUE, store)
    ELSE IF fault = "drop_state" THEN SchemaResult(TRUE, WithoutUsage(store))
    ELSE SchemaResult(FALSE, WithoutFileState(WithoutUsage(store)))

\* db.Exec(schema): CREATE TABLE IF NOT EXISTS creates what is missing and
\* leaves an existing table as it is.
execSchema(r, fault) ==
    IF r.err THEN r
    ELSE IF fault = "schema" THEN SchemaResult(TRUE, r.store)
    ELSE SchemaResult(FALSE,
                      [r.store EXCEPT
                          !.cols = IF sawUsageTableColumn(r.store) THEN @ ELSE UsageColumns])

ensureSchema(store, fault) ==
    execSchema(IF needsRebuild(store) THEN dropTables(store, fault)
               ELSE SchemaResult(FALSE, store),
               fault)

\* n complete lines.
RECURSIVE OpenLines(_)
OpenLines(n) ==
    IF n = 0 THEN <<>> ELSE OpenLines(n - 1) \o LineOf("a") \o <<"\n">>

OpenCounts == [Paths -> 0..MaxLines]

\* The session files hold now[p] lines; an earlier run, of this version or
\* of one with another schema, ingested the first seen[p] of them into the
\* store file, which is not open yet.
OpenInit ==
    /\ tz = 0
    /\ lock = 0
    /\ db = EmptyDB
    /\ pc = [w \in {1} |-> "closed"]
    /\ tx = [w \in {1} |-> EmptyDB]
    /\ queue = [w \in {1} |-> <<>>]
    /\ result = [w \in {1} |-> ZeroResult]
    /\ ret = [w \in {1} |-> NoReturn]
    /\ resp = [w \in {1} |-> NoResp]
    /\ hist = HistInit
    /\ \E now \in OpenCounts, seen \in OpenCounts, cols \in StoreColumnSets :
          /\ \A p \in Paths : seen[p] <= now[p]
          /\ cols = {} => \A p \in Paths : seen[p] = 0
          /\ disk = [p \in Paths |-> OpenLines(now[p])]
          /\ probe = [op    |-> "store",
                      store |-> StoreOf(cols,
                                        SyncAll(EmptyDB, IterSessionFiles(Universe),
                                                [p \in Paths |-> OpenLines(seen[p])], 0))]

\* openDB returned: on an error the handle is closed and the store file
\* keeps what the statements before the error did to it.
Opened(w, r) ==
    IF r.err
    THEN /\ probe' = [op |-> "store", store |-> r.store]
         /\ UNCHANGED <<tz, disk, db, lock, pc, tx, queue, result, ret, resp, hist>>
    ELSE /\ db' = [recs |-> r.store.recs, fstate |-> r.store.fstate]
         /\ pc' = [pc EXCEPT ![w] = "idle"]
         /\ probe' = [op |-> "opened", store |-> probe.store]
         /\ UNCHANGED <<tz, disk, lock, tx, queue, result, ret, resp, hist>>

\* sql.Open, the two PRAGMAs, ensureSchema.
openDB(w, fault) ==
    /\ pc[w] = "closed"
    /\ Opened(w, ensureSchema(probe.store, fault))

NextOpen ==
    \/ \E w \in Workers, fault \in OpenFaults : openDB(w, fault)
    \/ \E w \in Workers : SyncBegin(w, "none")
    \/ \E w \in Workers : SyncFile(w, "none")
    \/ \E w \in Workers : SyncCommit(w, TRUE)

SpecOpen == OpenInit /\ [][NextOpen]_vars

(***************************************************************************)
(* Callers that wait for the sync lock                                     *)
(***************************************************************************)
LiveWorkers == {1, 2}

\* A session file is empty, holds one line, or a line being written.
LiveContents == {<<>>, OpenLines(1), <<"{", "a">>}

LiveInit ==
    /\ tz = 0
    /\ lock = 0
    /\ db = EmptyDB
    /\ pc = [w \in LiveWorkers |-> "idle"]
    /\ tx = [w \in LiveWorkers |-> EmptyDB]
    /\ queue = [w \in LiveWorkers |-> <<>>]
    /\ result = [w \in LiveWorkers |-> ZeroResult]
    /\ ret = [w \in LiveWorkers |-> NoReturn]
    /\ resp = [w \in LiveWorkers |-> NoResp]
    /\ hist = HistInit
    /\ probe = NoProbe
    /\ disk \in [Paths -> LiveContents]

\* The caller enters Sync and reaches syncMu.Lock().
SyncCall(w) ==
    /\ pc[w] \in {"idle", "returned"}
    /\ pc' = [pc EXCEPT ![w] = "waiting"]
    /\ UNCHANGED <<tz, disk, db, lock, tx, queue, result, ret, resp, hist, probe>>

\* syncMu.Lock() returns to a waiting caller, and its pass begins.
SyncEnter(w) == pc[w] = "waiting" /\ \E fault \in BeginFaults : SyncBegin(w, fault)

SyncStep(w) == \E fault \in StepFaults : SyncFile(w, fault)

SyncEnd(w) == \E ok \in BOOLEAN : SyncCommit(w, ok)

NextLive ==
    \/ \E w \in LiveWorkers : SyncCall(w)
    \/ \E w \in LiveWorkers : SyncEnter(w)
    \/ \E w \in LiveWorkers : SyncStep(w)
    \/ \E w \in LiveWorkers : SyncEnd(w)

\* A step of w's running pass, told by what it does to pc and queue: a file
\* is done (SyncStep), or Sync returns (SyncStep on a failure of the pass,
\* SyncEnd).  It is enabled exactly while the pass runs.
Advance(w) ==
    /\ pc[w] = "files"
    /\ \/ queue[w] # <<>> /\ queue' = [queue EXCEPT ![w] = Tail(@)] /\ pc' = pc
       \/ queue' = [queue EXCEPT ![w] = <<>>] /\ pc' = [pc EXCEPT ![w] = "returned"]

\* The variables Advance tells a step by.
position == <<pc, queue>>

\* A goroutine that can run does run; a goroutine blocked in Lock gets the
\* mutex when it is released often enough (sync.Mutex hands the mutex to a
\* waiter that has waited long: its starvation mode).
LiveFairness ==
    \A w \in LiveWorkers :
        /\ SF_vars(SyncEnter(w))
        /\ WF_position(Advance(w))

SpecLive == LiveInit /\ [][NextLive]_vars /\ LiveFairness

(***************************************************************************)
(* IterSessionFiles on a directory tree, and the pass over its result      *)
(***************************************************************************)
\* The names an entry of the agents directory can have.
EntryNames == {<<"*">>, <<"a">>, <<"b">>}

\* The names in a "sessions" directory, as [stem, ext]: x.jsonl and n.txt.
SessionNames == {[stem |-> <<"x">>, ext |-> "jsonl"], [stem |-> <<"n">>, ext |-> "txt"]}

\* An entry of the agents directory: missing, a regular file, or a
\* directory with or without a "sessions" directory of the given files.
NoEntry == [kind |-> "none", sessions |-> FALSE, files |-> {}]

PlainEntries == {NoEntry, [NoEntry EXCEPT !.kind = "file"], [NoEntry EXCEPT !.kind = "dir"]}

AgentEntries ==
    PlainEntries
    \cup {[kind |-> "dir", sessions |-> TRUE, files |-> fs] : fs \in SUBSET SessionNames}

\* The agents directory is missing.
NoTree == [exists |-> FALSE, entries |-> [n \in EntryNames |-> NoEntry]]

\* The agents directories; the entry "*" holds no session files of its own.
Trees ==
    {NoTree}
    \cup {[exists |-> TRUE, entries |-> e] :
             e \in {f \in [EntryNames -> AgentEntries] : f[<<"*">>] \in PlainEntries}}

\* sort.Strings, and the order of os.ReadDir: the strings of S in byte order.
SortStrings(S) ==
    CHOOSE q \in [1..Cardinality(S) -> S] :
        \A i, j \in 1..Cardinality(S) : i < j => StrLess(q[i], q[j])

\* os.ReadDir(agentsDir): the names of the entries, sorted.
ReadDir(tree) == SortStrings({n \in EntryNames : tree.entries[n].kind # "none"})

\* filepath.Match of a path element of the pattern against a name, for the
\* names above: "*" matches every name, any other element itself only.
Match(pattern, name) == IF pattern = <<"*">> THEN TRUE ELSE pattern = name

\* filepath.Glob(agentsDir/<agent>/sessions/*.jsonl): the paths of the
\* *.jsonl names in the "sessions" directory of every entry that the
\* pattern element <agent> matches.
Glob(tree, agent) ==
    UNION {{n \o <<"/">> \o f.stem : f \in {g \in tree.entries[n].files : g.ext = "jsonl"}} :
             n \in {m \in EntryNames : tree.entries[m].sessions /\ Match(agent, m)}}

\* results = append(results, SessionFile{AgentName: e.Name(), Path: f})
SessionFilesOf(agent, files) ==
    [i \in 1..Len(files) |-> [AgentName |-> agent, Path |-> files[i]]]

RECURSIVE EachEntry(_, _)
\* The loop over the entries: the ones that are no directory are skipped.
EachEntry(tree, names) ==
    IF names = <<>> THEN <<>>
    ELSE (IF tree.entries[Head(names)].kind # "dir" THEN <<>>
          ELSE SessionFilesOf(Head(names), SortStrings(Glob(tree, Head(names)))))
         \o EachEntry(tree, Tail(names))

\* IterSessionFiles(agentsDir): nil, nil when the directory does not exist.
IterSessionFilesOf(tree) ==
    IF ~tree.exists THEN <<>> ELSE EachEntry(tree, ReadDir(tree))

\* A tree of agents, the session files holding nothing or one line.
TreeInit ==
    /\ InitWith({1})
    /\ \E tree \in Trees :
          probe = [op |-> "tree", tree |-> tree, files |-> <<>>, again |-> <<>>]

\* A call of IterSessionFiles, and a second call on the same tree.
ListFiles ==
    /\ probe.op = "tree"
    /\ probe' = [probe EXCEPT !.op = "listed", !.files = IterSessionFilesOf(probe.tree)]
    /\ UNCHANGED <<tz, disk, db, lock, pc, tx, queue, result, ret, resp, hist>>

ListAgain ==
    /\ probe.op = "listed"
    /\ probe' = [probe EXCEPT !.op = "relisted", !.again = IterSessionFilesOf(probe.tree)]
    /\ UNCHANGED <<tz, disk, db, lock, pc, tx, queue, result, ret, resp, hist>>

\* Sync on the tree.
TreeSyncBegin(w, fault) == SyncBeginOn(w, fault, IterSessionFilesOf(probe.tree))

NextTree ==
    \/ ListFiles
    \/ ListAgain
    \/ \E k \in SyncKeys : AppendLine(FileA.Path, k)
    \/ \E w \in Workers, fault \in BeginFaults : TreeSyncBegin(w, fault)
    \/ \E w \in Workers, fault \in StepFaults : SyncFile(w, fault)
    \/ \E w \in Workers, ok \in BOOLEAN : SyncCommit(w, ok)

SpecTree == TreeInit /\ [][NextTree]_vars

(***************************************************************************)
(* main from the graceful-shutdown block on: the main goroutine and the    *)
(* goroutine that waits for SIGINT or SIGTERM                              *)
(***************************************************************************)
Goroutines == {"main", "shutdown"}

\* The process when signal.NotifyContext has returned: the PID file of an
\* earlier run may still exist, and the process is the daemon child or not.
DaemonInit ==
    /\ InitWith(Goroutines)
    /\ \E daemon \in BOOLEAN, file \in {"none", "stale"} :
          probe = [op |-> "daemon", daemon |-> daemon, signalled |-> FALSE,
                   inShutdown |-> FALSE, bound |-> FALSE, pidFile |-> file,
                   conn |-> "none", exited |-> FALSE]

Running == probe.op = "daemon" /\ ~probe.exited

OnlyProcess == UNCHANGED <<tz, disk, db, lock, tx, queue, result, ret, resp, hist>>

\* log.Fatalf: os.Exit(1), no deferred call and no other goroutine runs on.
Fatalf ==
    /\ pc' = [pc EXCEPT !["main"] = "fatal"]
    /\ probe' = [probe EXCEPT !.exited = TRUE]

\* SIGINT or SIGTERM arrives: ctx is cancelled.
Signal ==
    /\ Running
    /\ ~probe.signalled
    /\ probe' = [probe EXCEPT !.signalled = TRUE]
    /\ UNCHANGED pc
    /\ OnlyProcess

\* ln, err := net.Listen("tcp", addr)
Listen(ok) ==
    /\ Running
    /\ pc["main"] = "idle"
    /\ IF ok
       THEN /\ pc' = [pc EXCEPT !["main"] = "bound"]
            /\ probe' = [probe EXCEPT !.bound = TRUE]
       ELSE Fatalf
    /\ OnlyProcess

\* if daemon { writePIDFile() }
WritePID(ok) ==
    /\ Running
    /\ pc["main"] = "bound"
    /\ IF ~probe.daemon
       THEN pc' = [pc EXCEPT !["main"] = "written"] /\ probe' = probe
       ELSE IF ok
       THEN /\ pc' = [pc EXCEPT !["main"] = "written"]
            /\ probe' = [probe EXCEPT !.pidFile = "own"]
       ELSE Fatalf
    /\ OnlyProcess

\* srv.Serve(ln) is called: it returns ErrServerClosed at once when
\* Shutdown has been called before, else it accepts connections.
ServeStart ==
    /\ Running
    /\ pc["main"] = "written"
    /\ pc' = [pc EXCEPT !["main"] = IF probe.inShutdown THEN "closed" ELSE "serving"]
    /\ probe' = probe
    /\ OnlyProcess

\* A request arrives, on a new connection or on the idle one, and its
\* handler runs: conn is "none", "active" or "idle".
RequestStart ==
    /\ Running
    /\ pc["main"] = "serving"
    /\ ~probe.inShutdown
    /\ probe.conn # "active"
    /\ probe' = [probe EXCEPT !.conn = "active"]
    /\ UNCHANGED pc
    /\ OnlyProcess

\* The handler returns: the connection is idle, and closed at once when the
\* server is shutting down.
RequestEnd ==
    /\ Running
    /\ probe.conn = "active"
    /\ probe' = [probe EXCEPT !.conn = IF probe.inShutdown THEN "none" ELSE "idle"]
    /\ UNCHANGED pc
    /\ OnlyProcess

\* Serve returns: ErrServerClosed once Shutdown has closed the listener,
\* any other error (a failing Accept) ends in log.Fatalf.
ServeReturn ==
    /\ Running
    /\ pc["main"] = "serving"
    /\ IF probe.inShutdown
       THEN pc' = [pc EXCEPT !["main"] = "closed"] /\ probe' = probe
       ELSE Fatalf
    /\ OnlyProcess

\* log.Println("...") and the return from main: the process exits.
MainReturn ==
    /\ Running
    /\ pc["main"] = "closed"
    /\ pc' = [pc EXCEPT !["main"] = "returned"]
    /\ probe' = [probe EXCEPT !.exited = TRUE]
    /\ OnlyProcess

\* <-ctx.Done() returned and srv.Shutdown is called: the server is marked
\* as shutting down, its listeners and its idle connections are closed.
ShutdownBegin ==
    /\ Running
    /\ pc["shutdown"] = "idle"
    /\ probe.signalled
    /\ pc' = [pc EXCEPT !["shutdown"] = "shutdown"]
    /\ probe' = [probe EXCEPT !.inShutdown = TRUE,
                              !.conn = IF @ = "idle" THEN "none" ELSE @]
    /\ OnlyProcess

\* srv.Shutdown returns: no request is in flight, or the 5 s are over.
ShutdownEnd(timeout) ==
    /\ Running
    /\ pc["shutdown"] = "shutdown"
    /\ IF timeout THEN TRUE ELSE probe.conn # "active"
    /\ pc' = [pc EXCEPT !["shutdown"] = "closed"]
    /\ probe' = probe
    /\ OnlyProcess

\* if daemon { removePIDFile() }
RemovePID ==
    /\ Running
    /\ pc["shutdown"] = "closed"
    /\ pc' = [pc EXCEPT !["shutdown"] = "done"]
    /\ probe' = [probe EXCEPT !.pidFile = IF probe.daemon THEN "none" ELSE @]
    /\ OnlyProcess

NextDaemon ==
    \/ Signal
    \/ \E ok \in BOOLEAN : Listen(ok)
    \/ \E ok \in BOOLEAN : WritePID(ok)
    \/ ServeStart
    \/ RequestStart
    \/ RequestEnd
    \/ ServeReturn
    \/ MainReturn
    \/ ShutdownBegin
    \/ \E timeout \in BOOLEAN : ShutdownEnd(timeout)
    \/ RemovePID

SpecDaemon == DaemonInit /\ [][NextDaemon]_vars

(***************************************************************************)
(* CollectStats on a cache filled by earlier passes                        *)
(***************************************************************************)
Date0131 == <<"2", "0", "2", "6", "-", "0", "1", "-", "3", "1">>

Date0217 == <<"2", "0", "2", "6", "-", "0", "2", "-", "1", "7">>

Date0301 == <<"2", "0", "2", "6", "-", "0", "3", "-", "0", "1">>

\* The bounds of the queries: "" is an absent bound.
StatsDates == {<<>>, Date0131, Date0217, Date0301}

\* The document DocDated with another day in its timestamp.
DocOn(date) ==
    [DocDated EXCEPT !.Timestamp = Str(date \o <<"T", "1", "2", ":", "0", "0", ":", "0", "0", "Z">>)]

\* A document of that day with a cost and another token count.
DocCosting(date) ==
    [DocOn(date) EXCEPT !.Usage.InputTokens = Num(Lit(3)), !.CostUsd = Num(<<"1", ".", "5">>)]

\* {"timestamp":"2026-03-01T12:00:00Z","model":"m","usage":{...},"costUsd":-0.5}
DocRefund == [DocOn(Date0301) EXCEPT !.CostUsd = Num(<<"-", "0", ".", "5">>)]

\* The row a pass stores for the document rec read at the offset of sf.
StoredRow(sf, offset, rec) == Row(ParseLine(sf.AgentName, rec, 0)[1], sf.Path, offset)

\* The rows earlier passes can have stored.
StatsRows ==
    <<StoredRow(FileA, 0, DocOn(Date0131)),
      StoredRow(FileA, 4, DocOn(Date0217)),
      StoredRow(FileA, 8, DocUndated),
      StoredRow(FileB, 0, DocOn(Date0301)),
      StoredRow(FileB, 4, DocUndated),
      StoredRow(FileB, 8, DocCosting(Date0217)),
      StoredRow(FileA, 12, DocRefund)>>

\* The cache holding the rows of StatsRows numbered in I.
StatsCache(I) ==
    [recs |-> SelectSeq(StatsRows, LAMBDA r : \E i \in I : r = StatsRows[i]),
     fstate |-> [p \in Paths |->
                   IF \E i \in I : StatsRows[i].source_file = p
                   THEN [present |-> TRUE,
                         agent_name |-> (CHOOSE sf \in Universe : sf.Path = p).AgentName,
                         last_offset |-> 16]
                   ELSE NoRow]]

\* Sync has just returned without finding anything new.
StatsInit ==
    /\ tz = 0
    /\ disk = [p \in Paths |-> <<>>]
    /\ db \in {StatsCache(I) : I \in SUBSET (1..Len(StatsRows))}
    /\ lock = 0
    /\ pc = [w \in {1} |-> "returned"]
    /\ tx = [w \in {1} |-> EmptyDB]
    /\ queue = [w \in {1} |-> <<>>]
    /\ result = [w \in {1} |-> ZeroResult]
    /\ ret = [w \in {1} |-> NoReturn]
    /\ resp = [w \in {1} |-> NoResp]
    /\ hist = HistInit
    /\ probe = NoProbe

NextStats == \E w \in Workers, s \in StatsDates, e \in StatsDates : CollectStats(w, s, e)

SpecStats == StatsInit /\ [][NextStats]_vars

(***************************************************************************)
(* ParseLine on usage objects                                              *)
(***************************************************************************)
\* The values of the explicit total fields and of the component fields.
TotalValues == {Null, Num(Lit(0)), Num(Lit(9))}

ComponentValues == {Null, Num(Lit(0)), Num(Lit(2)), Str(<<"3">>), Num(<<"-", "1">>)}

\* {"totalTokens":a,"total":b,"input_tokens":c,"output":d}
UsageOf(a, b, c, d) ==
    [EmptyUsage EXCEPT !.TotalTokens = a, !.Total = b, !.InputTokens = c, !.Output = d]

ParseUsages ==
    {UsageOf(a, b, c, d) : a \in TotalValues, b \in TotalValues,
                           c \in ComponentValues, d \in ComponentValues}

\* A line {"usage": u} is about to be parsed.
ParseInit ==
    /\ InitWith({1})
    /\ \E u \in ParseUsages : probe = [op |-> "line", usage |-> u, out |-> <<>>]

\* ParseLine(agentName, line) on the line {"usage": u}.
ParseUsageLine ==
    /\ probe.op = "line"
    /\ probe' = [op |-> "parsed", usage |-> probe.usage,
                 out |-> ParseLine(FileA.AgentName,
                                   [EmptyRecord EXCEPT !.Usage = probe.usage], tz)]
    /\ UNCHANGED <<tz, disk, db, lock, pc, tx, queue, result, ret, resp, hist>>

NextParse == ParseUsageLine

SpecParse == ParseInit /\ [][NextParse]_vars

(***************************************************************************)
(* ParseLine on lines that name the total, the usage and the model in      *)
(* several places                                                          *)
(***************************************************************************)
\* The values of an explicit total field: absent, zero, or n.
AliasValues(n) == {Null, Num(Lit(0)), Num(Lit(n))}

\* {"totalTokens":a,"total_tokens":b,"total":c,"tokens":d,"input":e}
AliasUsage(a, b, c, d, e) ==
    [EmptyUsage EXCEPT !.TotalTokens = a, !.TotalTokens2 = b, !.Total = c,
                       !.Tokens = d, !.Input = e]

\* Lines {"usage": u} whose explicit totals differ from one another.
AliasRecords ==
    {[EmptyRecord EXCEPT !.Usage = AliasUsage(a, b, c, d, e)] :
        a \in AliasValues(5) \cup {Str(<<"x">>)}, b \in AliasValues(6),
        c \in AliasValues(7), d \in AliasValues(8), e \in {Null, Num(Lit(2))}}

\* The "usage" members of a line: absent, null, not an object, an empty
\* object, or {"input": n}.
UsageMembers(n) ==
    {UsageAbsent, UsageNull, UsageBad, EmptyUsage, [EmptyUsage EXCEPT !.Input = Num(Lit(n))]}

\* The "message" members of a line: absent, null, not an object, or an
\* object with a "usage" member and a "model" that is absent or a number.
MessageMembers ==
    {MessageAbsent, [EmptyMessage EXCEPT !.t = "null"], [EmptyMessage EXCEPT !.t = "bad"]}
    \cup {[EmptyMessage EXCEPT !.Usage = u, !.Model = m] :
             u \in UsageMembers(3), m \in {Null, Num(Lit(5))}}

\* Lines {"message": m, "usage": u}, a line whose "model" is a number, and
\* a line that is not JSON.
SourceRecords ==
    {[EmptyRecord EXCEPT !.Message = m, !.Usage = u] :
        m \in MessageMembers, u \in UsageMembers(7)}
    \cup {[EmptyRecord EXCEPT !.Model = Num(Lit(5)),
                                !.Usage = [EmptyUsage EXCEPT !.Input = Num(Lit(7))]], BadLine}

\* The values of a model alias: absent, "", or the name n.
ModelValues(n) == {Null, Str(<<>>), Str(<<n>>)}

\* Lines {"message":{"model":a,"modelId":b,"model_id":c},"model":d,
\* "modelId":e,"model_id":f,"usage":{"input":1}}; message.model may also be
\* blank, padded with a blank, or a number.
ModelRecords ==
    {[EmptyRecord EXCEPT
         !.Message = [EmptyMessage EXCEPT !.Model = a, !.ModelID = b, !.ModelID2 = c],
         !.Model = d, !.ModelID = e, !.ModelID2 = f,
         !.Usage.Input = Num(Lit(1)), !.Usage.t = "obj"] :
        a \in ModelValues("a") \cup {Str(<<" ">>), Str(<<" ", "a">>), Num(Lit(5))},
        b \in ModelValues("b"), c \in ModelValues("c"),
        d \in ModelValues("d"), e \in ModelValues("e"), f \in ModelValues("f")}

ResolveRecords == AliasRecords \cup SourceRecords \cup ModelRecords

\* A line is about to be parsed.
ResolveInit ==
    /\ InitWith({1})
    /\ \E rec \in ResolveRecords : probe = [op |-> "line", rec |-> rec, out |-> <<>>]

NextResolve == ParseRecord

SpecResolve == ResolveInit /\ [][NextResolve]_vars

(***************************************************************************)
(* One instant written as a number and as a numeric string                 *)
(***************************************************************************)
\* The days of the instants: 1970, 1973 and 1975 (milliseconds of 10 to 12
\* digits), 2001 and 2026 (13 digits).
StampDays ==
    {30, DaysFromCivil(1973, 3, 4), DaysFromCivil(1975, 6, 15),
     DaysFromCivil(2001, 9, 10), DaysFromCivil(2026, 2, 17)}

StampUnits == {"s", "ms"}

\* The digits of the instant in unix seconds or milliseconds.
StampDigits(day, sod, unit) ==
    Decimal(day * SecondsPerDay + sod) \o (IF unit = "ms" THEN <<"0", "0", "0">> ELSE <<>>)

\* {"timestamp":ts,"usage":{"input":1}}
StampRecord(ts) ==
    [EmptyRecord EXCEPT !.Timestamp = ts,
                        !.Usage = [EmptyUsage EXCEPT !.Input = Num(Lit(1))]]

StampInit ==
    /\ \E zone \in TimeZones : InitIn(zone, {1})
    /\ \E day \in StampDays, sod \in TimeSeconds, unit \in StampUnits :
          probe = [op |-> "stamp", day |-> day, sod |-> sod, unit |-> unit, out |-> <<>>]

\* ParseLine on the line with the digits as a JSON number, on the line with
\* the digits as a string, and on the line with the instant in RFC 3339.
ParseStampsOf(digits, iso, zone) ==
    <<ParseLine(FileA.AgentName, StampRecord(Num(digits)), zone),
      ParseLine(FileA.AgentName, StampRecord(Str(digits)), zone),
      ParseLine(FileA.AgentName, StampRecord(iso), zone)>>

ParseStamps ==
    /\ probe.op = "stamp"
    /\ probe' = [probe EXCEPT
                    !.op = "stamped",
                    !.out = ParseStampsOf(StampDigits(probe.day, probe.sod, probe.unit),
                                          IsoZ(probe.day, probe.sod), tz)]
    /\ UNCHANGED <<tz, disk, db, lock, pc, tx, queue, result, ret, resp, hist>>

NextStamp == ParseStamps

SpecStamp == StampInit /\ [][NextStamp]_vars

(***************************************************************************)
(* Properties of the sync pass                                             *)
(***************************************************************************)
SessionFileOf(p) == CHOOSE sf \in Universe : sf.Path = p

\* The rows of usage_records attributed to the file, in rowid order.
FileRecs(d, p) == SelectSeq(d.recs, LAMBDA r : r.source_file = p)

RowSet(d) == {d.recs[i] : i \in 1..Len(d.recs)}

\* The rows a read of the whole file from offset 0 inserts.
FreshRead(p, data) ==
    scanLoop(<<>>, SessionFileOf(p), ScanLines(data), 0, 0, "none", tz).recs

\* The bytes of the file up to its last newline: its complete lines.
CompleteLines(data) ==
    IF \E i \in 1..Len(data) : data[i] = "\n"
    THEN SubSeq(data, 1, CHOOSE i \in 1..Len(data) :
                            data[i] = "\n" /\ \A j \in (i + 1)..Len(data) : data[j] # "\n")
    ELSE <<>>

\* A row without the offset it was tagged with.
Content(row) == [row EXCEPT !.source_offset = 0]

Contents(rows) == [i \in 1..Len(rows) |-> Content(rows[i])]

\* Worker w's last call was a pass that committed.
Returned(w) == pc[w] \in {"returned", "done"} /\ ~ret[w].err

Failed(p) == hist.status[p] \in {"io", "failed"}

\* The pass found the file smaller than its stored offset.
FoundTruncated(p) ==
    hist.pre.fstate[p].present /\ Len(disk[p]) < hist.pre.fstate[p].last_offset

\* C1: a pass that begins right after a pass without failures, no file having
\* been written in between, inserts no record, counts no file as synced and
\* leaves usage_records and file_state as they were.
C1Idempotent ==
    \A w \in Workers :
        (Returned(w) /\ hist.repeat) =>
            /\ ret[w].res.NewRecords = 0
            /\ ret[w].res.SyncedFiles = 0
            /\ RowSet(db) = RowSet(hist.pre)
            /\ db.fstate = hist.pre.fstate

\* C2: after a pass that found a file smaller than its stored offset and
\* processed it, the file's rows are exactly the rows of a read of its
\* current content, the rows the other files had are still there, and one
\* more sync of the file does nothing.
C2TruncationRebuilds ==
    \A w \in Workers, p \in Paths :
        (Returned(w) /\ FoundTruncated(p) /\ ~Failed(p)) =>
            /\ FileRecs(db, p) = FreshRead(p, disk[p])
            /\ \A q \in Paths \ {p} :
                   ~FoundTruncated(q) =>
                       SubSeq(FileRecs(db, q), 1, Len(FileRecs(hist.pre, q)))
                           = FileRecs(hist.pre, q)
            /\ ~syncOneFile(db, SessionFileOf(p), disk[p], "none", tz).synced
            /\ syncOneFile(db, SessionFileOf(p), disk[p], "none", tz).tx = db

\* C5: when a pass has committed, a file whose processing failed has the rows
\* and the offset it had before the pass, the failed files are among the
\* files counted as skipped, and every other file has the rows and the
\* offset its own processing produced.
C5PerFileAtomicity ==
    \A w \in Workers :
        Returned(w) =>
            /\ \A p \in Paths :
                   Failed(p) => /\ FileRecs(db, p) = FileRecs(hist.pre, p)
                                /\ db.fstate[p] = hist.pre.fstate[p]
            /\ ret[w].res.SkippedFiles =
                   Cardinality({p \in Paths : hist.status[p] \in {"io", "failed", "nothing"}})
            /\ ret[w].res.SyncedFiles =
                   Cardinality({p \in Paths : hist.status[p] = "synced"})
            /\ \A p \in Paths :
                   ~Failed(p) =>
                       /\ FileRecs(db, p) =
                              FileRecs(syncOneFile(hist.pre, SessionFileOf(p), disk[p],
                                                   "none", tz).tx, p)
                       /\ db.fstate[p] =
                              syncOneFile(hist.pre, SessionFileOf(p), disk[p],
                                          "none", tz).tx.fstate[p]

\* A pass has committed in which one file with cached rows failed and another
\* file was synced.
C5Witness ==
    \E w \in Workers, p, q \in Paths :
        /\ Returned(w)
        /\ Failed(p) /\ FileRecs(hist.pre, p) # <<>>
        /\ hist.status[q] = "synced" /\ FileRecs(db, q) # FileRecs(hist.pre, q)

\* C7: a file skipped because it could not be stat'd, opened or read has,
\* after the pass, the offset it had before; and when the next pass processes
\* it, every complete line of the file is in the cache exactly once.
C7SkippedFileRetried ==
    /\ [](\A w \in Workers, p \in Paths :
             (Returned(w) /\ hist.status[p] = "io") =>
                 db.fstate[p] = hist.pre.fstate[p])
    /\ [][\A w \in Workers, p \in Paths :
             (/\ pc[w] = "files"
              /\ hist.status[p] = "io"
              /\ hist'.status[p] \in {"nothing", "synced"}) =>
                 Contents(FileRecs(tx'[w], p)) \in
                     {Contents(FreshRead(p, CompleteLines(disk[p]))),
                      Contents(FreshRead(p, disk[p]))}]_vars

(***************************************************************************)
(* Properties of concurrent callers                                        *)
(***************************************************************************)
IsPrefix(s, t) == Len(s) =< Len(t) /\ s = SubSeq(t, 1, Len(s))

\* The rows of the file p, committed or in a running transaction, are the
\* first rows of fresh, the rows one read of the file's lines gives.
EachLineOnce(p, fresh) ==
    /\ IsPrefix(FileRecs(db, p), fresh)
    /\ \A w \in Workers : pc[w] = "files" => IsPrefix(FileRecs(tx[w], p), fresh)

C6CommitFailure ==
    /\ [](\A w \in Workers :
            /\ (pc[w] \in {"returned", "done"} /\ ret[w].err) => ret[w].res = ZeroResult
            /\ (pc[w] = "done" /\ ret[w].err) => resp[w] = ErrorResponse)
    /\ [][\A w \in Workers :
            (pc[w] = "files" /\ pc'[w] = "returned" /\ ret'[w].err) => db' = db]_vars

\* A pass that had read a file's lines failed to commit: the caller has the
\* error and the cache has none of the lines.
C6Witness ==
    \E w \in Workers, p \in Paths :
        /\ pc[w] = "done"
        /\ ret[w].err
        /\ resp[w] = ErrorResponse
        /\ disk[p] # <<>>
        /\ FileRecs(db, p) = <<>>
        /\ ~db.fstate[p].present

(***************************************************************************)
(* Properties of the schema                                                *)
(***************************************************************************)
\* No two rows of the table share a (source_file, source_offset).
SourceLinesUnique(recs) ==
    \A i, j \in 1..Len(recs) :
        (/\ recs[i].source_file = recs[j].source_file
         /\ recs[i].source_offset = recs[j].source_offset) => i = j

\* C4: in every state of the cache, committed or inside a transaction, no
\* two rows of usage_records share the same (source_file, source_offset).
C4UniqueSourceLine ==
    /\ SourceLinesUnique(db.recs)
    /\ \A w \in Workers : SourceLinesUnique(tx[w].recs)

\* An INSERT repeating a stored (source_file, source_offset) was refused
\* while the table held several rows.
C4Witness == probe.op = "insert" /\ probe.err /\ Len(db.recs) >= 2

(***************************************************************************)
(* Properties of the aggregation                                           *)
(***************************************************************************)
Elements(q) == {q[i] : i \in 1..Len(q)}

\* What a response says in its range-filtered views.
ViewsOf(r) ==
    [records |-> r.Summary.UsageRecords, tokens |-> r.Summary.TotalTokens,
     cost |-> r.Summary.TotalCost,
     agents |-> Elements(r.AgentTotals), models |-> Elements(r.ModelTotals),
     daily |-> Elements(r.DailyTokens), heatmap |-> Elements(r.Heatmap),
     counts |-> <<Len(r.AgentTotals), Len(r.ModelTotals), Len(r.DailyTokens)>>]

\* The views computed over exactly the given rows.
ViewsOver(rows) ==
    [records |-> Len(rows), tokens |-> SumOver(rows, "tokens"),
     cost |-> roundFloat(SumOver(rows, "cost"), 6),
     agents |-> GroupTotals(rows, AgentKey), models |-> GroupTotals(rows, ModelKey),
     daily |-> GroupTotals(rows, DateKey),
     heatmap |-> HeatCells(SelectSeq(rows, LAMBDA r : r.hour # NilInt /\ r.dow # NilInt)),
     counts |-> <<Cardinality(GroupTotals(rows, AgentKey)),
                  Cardinality(GroupTotals(rows, ModelKey)),
                  Cardinality(GroupTotals(rows, DateKey))>>]

Answered(w) == pc[w] = "done" /\ ~ret[w].err

Bounded == probe.startDate # <<>> \/ probe.endDate # <<>>

Dated(rows) == SelectSeq(rows, LAMBDA r : r.date_key # UNKNOWN)

\* The response is one the queries give on the cache d.
AnswersFor(w, d) ==
    \E r \in CollectStatsResponses(d, ret[w].res, probe.startDate, probe.endDate) :
        ViewsOf(resp[w]) = ViewsOf(r)

DayNumber(date) ==
    DigitsToInt(SubSeq(date, 1, 4)) * 10000 + DigitsToInt(SubSeq(date, 6, 7)) * 100
        + DigitsToInt(SubSeq(date, 9, 10))

\* The date d lies in the range, an absent bound being unbounded.
InRange(d, startDate, endDate) ==
    /\ (startDate # <<>> => DayNumber(startDate) =< DayNumber(d))
    /\ (endDate # <<>> => DayNumber(d) =< DayNumber(endDate))

\* C9: when a bound is given, every range-filtered view is computed over
\* exactly the dated records whose date d satisfies start <= d <= end, both
\* bounds inclusive and applied together, a bound that is not given leaving
\* its side unbounded.
C9InclusiveRange ==
    \A w \in Workers :
        (Answered(w) /\ Bounded) =>
            ViewsOf(resp[w]) =
                ViewsOver(SelectSeq(Dated(db.recs),
                                    LAMBDA r : InRange(r.date_key, probe.startDate,
                                                       probe.endDate)))

\* Both bounds are given, records dated on the start day and on the end day
\* are counted, and a dated record outside the range is not.
C9Witness ==
    \E w \in Workers :
        /\ Answered(w)
        /\ probe.startDate # <<>> /\ probe.endDate # <<>>
        /\ probe.startDate # probe.endDate
        /\ \E a, b \in Elements(resp[w].DailyTokens) :
              a.key = probe.startDate /\ b.key = probe.endDate
        /\ resp[w].Summary.UsageRecords < Len(Dated(db.recs))

(***************************************************************************)
(* Properties of the token total                                           *)
(***************************************************************************)
\* The token count of what ParseLine returned: 0 when it returned no record.
TokensOf(out) == IF out = <<>> THEN 0 ELSE out[1].Tokens

\* The fields of the list that the usage object carries.
Carried(fields) == {i \in 1..Len(fields) : fields[i] # Null}

\* The fields of the list whose value counts as a positive integer.
Positive(fields) == {i \in 1..Len(fields) : toInt(fields[i]) > 0}

RECURSIVE SumAt(_, _)
\* The sum of toInt over the fields at the positions in I.
SumAt(fields, I) ==
    IF I = {} THEN 0
    ELSE toInt(fields[CHOOSE i \in I : TRUE])
            + SumAt(fields, I \ {CHOOSE i \in I : TRUE})

\* The first position of I.
First(I) == CHOOSE i \in I : \A j \in I : i =< j

Parsed == probe.op = "parsed"

\* C10 as stated: a usage object carrying an explicit total field and
\* component fields yields an explicit total as the token count, one with
\* only component fields yields their sum, and one with no explicit total
\* and all components zero or absent yields no record.
C10AsStated ==
    Parsed =>
        /\ (Carried(ExplicitTotals(probe.usage)) # {}
              /\ Carried(ComponentFields(probe.usage)) # {}) =>
                \E i \in Carried(ExplicitTotals(probe.usage)) :
                    TokensOf(probe.out) = toInt(ExplicitTotals(probe.usage)[i])
        /\ Carried(ExplicitTotals(probe.usage)) = {} =>
                TokensOf(probe.out) =
                    SumAt(ComponentFields(probe.usage), Carried(ComponentFields(probe.usage)))
        /\ (Carried(ExplicitTotals(probe.usage)) = {}
              /\ Positive(ComponentFields(probe.usage)) = {}) => probe.out = <<>>

\* The token count the precedence rule gives: the first positive explicit
\* total, else the sum of the positive components.
TokenRule(totals, components) ==
    IF Positive(totals) # {} THEN toInt(totals[First(Positive(totals))])
    ELSE SumAt(components, Positive(components))

\* C10: a usage object with an explicit total field of positive value yields
\* the first such total (in the order totalTokens, total_tokens, total,
\* tokens) as the record's token count even if it disagrees with the
\* component sum; a usage object whose explicit totals are absent or not
\* positive yields the sum of its positive component fields; when that sum
\* is zero too, no record is yielded.
C10TokenPrecedence ==
    Parsed =>
        IF TokenRule(ExplicitTotals(probe.usage), ComponentFields(probe.usage)) > 0
        THEN /\ probe.out # <<>>
             /\ TokensOf(probe.out) =
                    TokenRule(ExplicitTotals(probe.usage), ComponentFields(probe.usage))
        ELSE probe.out = <<>>

\* A usage object whose explicit total of 9 disagrees with its component
\* sum was parsed into a record of 9 tokens.
C10Witness ==
    /\ Parsed
    /\ Positive(ExplicitTotals(probe.usage)) # {}
    /\ Positive(ComponentFields(probe.usage)) # {}
    /\ TokensOf(probe.out) = 9
    /\ SumAt(ComponentFields(probe.usage), Positive(ComponentFields(probe.usage))) # 9

(***************************************************************************)
(* Properties of the stored records                                        *)
(***************************************************************************)
\* The lines of the file p from which ParseLine returns no record.
DroppedLines(p) ==
    {i \in 1..Len(ScanLines(disk[p])) :
        ParseLineBytes(SessionFileOf(p).AgentName, ScanLines(disk[p])[i], tz) = <<>>}

\* Every row of the table has a positive token count and carries, apart
\* from its offset, what ParseLine gives for a line of its file.
StoredFromParseLine(d) ==
    \A i \in 1..Len(d.recs) :
        /\ d.recs[i].tokens > 0
        /\ Content(d.recs[i]) \in
               RowSet([recs |-> Contents(FreshRead(d.recs[i].source_file,
                                                   disk[d.recs[i].source_file]))])

\* C11: every record stored in the cache, committed or in a running
\* transaction, has a token count strictly greater than 0 and is a record
\* ParseLine returned for a line of its file; a line whose token total is
\* <= 0 gives no record.
C11PositiveTokens ==
    /\ StoredFromParseLine(db)
    /\ \A w \in Workers : StoredFromParseLine(tx[w])

\* A pass has committed a file that holds a line with a zero token total
\* next to a line that gives a record.
C11Witness ==
    \E w \in Workers, p \in Paths :
        /\ Returned(w)
        /\ DroppedLines(p) # {}
        /\ FileRecs(db, p) # <<>>
        /\ db.fstate[p].last_offset = Len(disk[p])

(***************************************************************************)
(* Properties of the timestamps                                            *)
(***************************************************************************)
\* C12: the unix-seconds number of an instant, the same instant in
\* milliseconds, its ISO-8601 "Z" string and its bare calendar date all
\* resolve to the same date_key, whatever the local time zone.
C12SameDateKey ==
    probe.op = "dates" => \A i, j \in 1..4 : probe.keys[i] = probe.keys[j]

(***************************************************************************)
(* Properties of the heatmap                                               *)
(***************************************************************************)
\* The cached records that match the date filter of the request.
Matching ==
    IF Bounded
    THEN SelectSeq(Dated(db.recs),
                   LAMBDA r : InRange(r.date_key, probe.startDate, probe.endDate))
    ELSE db.recs

RECURSIVE ColumnSumAt(_, _, _)
\* The sum of a column over the rows at the positions in I.
ColumnSumAt(rows, column, I) ==
    IF I = {} THEN 0
    ELSE rows[CHOOSE i \in I : TRUE][column]
            + ColumnSumAt(rows, column, I \ {CHOOSE i \in I : TRUE})

\* The heatmap hm has no cell for the pair when no row at I has it, and one
\* cell with the token sum of the rows at I otherwise.
HeatCellRight(hm, cells, rows, I) ==
    IF I = {} THEN cells = {}
    ELSE /\ Cardinality(cells) = 1
         /\ \A c \in cells : hm[c].tokens = ColumnSumAt(rows, "tokens", I)

HeatmapRight(hm, rows) ==
    /\ \A c \in 1..Len(hm) : hm[c].dow \in 0..6 /\ hm[c].hour \in 0..23
    /\ \A dow \in 0..6, hour \in 0..23 :
          HeatCellRight(hm, {c \in 1..Len(hm) : hm[c].dow = dow /\ hm[c].hour = hour},
                        rows,
                        {i \in 1..Len(rows) : rows[i].dow = dow /\ rows[i].hour = hour})

\* C13: the heatmap has a cell for a (day-of-week, hour) pair exactly when
\* some record matching the date filter has both fields with those values;
\* the cell's token sum is the sum over those records; a pair without a
\* matching record has no cell and no pair has two cells.
C13HeatmapSparsity ==
    \A w \in Workers : Answered(w) => HeatmapRight(resp[w].Heatmap, Matching)

\* The answer has a cell that sums two records, and the cache holds a
\* matching record without hour and weekday that has no cell.
C13Witness ==
    \E w \in Workers :
        /\ Answered(w)
        /\ \E c \in 1..Len(resp[w].Heatmap) : resp[w].Heatmap[c].tokens = 4
        /\ Len(resp[w].Heatmap) >= 2
        /\ \E i \in 1..Len(Matching) : Matching[i].hour = NilInt

(***************************************************************************)
(* Properties of the summary and of the grouped lists                      *)
(***************************************************************************)
\* The values of a column among the rows.
Distinct(rows, column) == {rows[i][column] : i \in 1..Len(rows)}

\* A cost sum in tenths, shown as the response shows it: in units of 10^-6.
Shown(tenths) == tenths * 100000

\* C15: usage_records, total_tokens and total_cost are the count and the
\* sums over the records matching the filter; agent_count, model_count and
\* day_count are the numbers of distinct agents, models and date_keys among
\* them; session_files is the number of file_state rows whatever the range.
C15SummaryBlock ==
    \A w \in Workers :
        Answered(w) =>
            /\ resp[w].Summary.UsageRecords = Len(Matching)
            /\ resp[w].Summary.TotalTokens =
                    ColumnSumAt(Matching, "tokens", 1..Len(Matching))
            /\ resp[w].Summary.TotalCost =
                    Shown(ColumnSumAt(Matching, "cost", 1..Len(Matching)))
            /\ resp[w].Summary.AgentCount = Cardinality(Distinct(Matching, "agent_name"))
            /\ resp[w].Summary.ModelCount = Cardinality(Distinct(Matching, "model"))
            /\ resp[w].Summary.DayCount = Cardinality(Distinct(Matching, "date_key"))
            /\ resp[w].Summary.SessionFiles =
                    Cardinality({p \in Paths : db.fstate[p].present})

\* The entry of a grouped list for the rows at I.
GroupEntryRight(entry, rows, I) ==
    /\ entry.tokens = ColumnSumAt(rows, "tokens", I)
    /\ entry.cost = Shown(ColumnSumAt(rows, "cost", I))
    /\ entry.records = Cardinality(I)

\* The list has exactly one entry for each value of the column among the
\* rows, with the sums and the count of the rows of that value.
GroupListRight(list, rows, column) ==
    /\ \A e \in 1..Len(list) : list[e].key \in Distinct(rows, column)
    /\ \A v \in Distinct(rows, column) :
          /\ Cardinality({e \in 1..Len(list) : list[e].key = v}) = 1
          /\ \A e \in 1..Len(list) :
                list[e].key = v =>
                    GroupEntryRight(list[e], rows,
                                    {i \in 1..Len(rows) : rows[i][column] = v})

NonIncreasing(list) ==
    \A i, j \in 1..Len(list) : i < j => list[i].tokens >= list[j].tokens

\* C16: the per-agent and the per-model list have exactly one entry per
\* distinct agent (model) among the matching records, with the token sum,
\* the cost sum and the record count of the group, in order of
\* non-increasing token sum.
C16GroupedTotals ==
    \A w \in Workers :
        Answered(w) =>
            /\ GroupListRight(resp[w].AgentTotals, Matching, "agent_name")
            /\ GroupListRight(resp[w].ModelTotals, Matching, "model")
            /\ NonIncreasing(resp[w].AgentTotals)
            /\ NonIncreasing(resp[w].ModelTotals)

\* The dated entries come in ascending order of date, before "unknown".
DailyAscending(list) ==
    \A i, j \in 1..Len(list) :
        i < j => /\ list[i].key # UNKNOWN
                 /\ list[j].key # UNKNOWN => DayNumber(list[i].key) < DayNumber(list[j].key)

\* The list has exactly one entry for each of the keys and no other entry.
OneEntryEach(list, keys) ==
    /\ \A e \in 1..Len(list) : list[e].key \in keys
    /\ \A v \in keys : Cardinality({e \in 1..Len(list) : list[e].key = v}) = 1

\* C17: the daily series has one entry per distinct date_key among the
\* matching records, in ascending order of date, the "unknown" bucket being
\* the last entry; with a range given there is no "unknown" bucket.
C17DailySeries ==
    \A w \in Workers :
        Answered(w) =>
            /\ OneEntryEach(resp[w].DailyTokens, Distinct(Matching, "date_key"))
            /\ DailyAscending(resp[w].DailyTokens)
            /\ Bounded => \A e \in 1..Len(resp[w].DailyTokens) :
                              resp[w].DailyTokens[e].key # UNKNOWN

\* Three days and the "unknown" bucket are listed, "unknown" last.
C17Witness ==
    \E w \in Workers :
        /\ Answered(w)
        /\ Len(resp[w].DailyTokens) = 4
        /\ resp[w].DailyTokens[4].key = UNKNOWN
        /\ resp[w].DailyTokens[4].records = 2

\* The four list fields of a response.
ListFields(r) == {r.AgentTotals, r.ModelTotals, r.DailyTokens, r.Heatmap}

\* C18: in every successful response the four list fields agent_totals,
\* model_totals, daily_tokens and heatmap are sequences, never null; when no
\* record matches they are empty sequences.
C18ListsNeverNull ==
    \A w \in Workers :
        Answered(w) =>
            /\ NilSlice \notin ListFields(resp[w])
            /\ Matching = <<>> => ListFields(resp[w]) = {<<>>}

\* A range that no record of a filled cache matches was answered.
C18Witness ==
    \E w \in Workers :
        /\ Answered(w)
        /\ db.recs # <<>>
        /\ Matching = <<>>
        /\ resp[w].Heatmap = <<>>
        /\ resp[w].AgentTotals = <<>>

(***************************************************************************)
(* Properties of concurrent responses                                      *)
(***************************************************************************)
\* The lists of the response account for as many records and tokens as
\* its summary.
SumsAgree(r, list) ==
    /\ ColumnSumAt(list, "records", 1..Len(list)) = r.Summary.UsageRecords
    /\ ColumnSumAt(list, "tokens", 1..Len(list)) = r.Summary.TotalTokens

\* C14: all views of one CollectStats response come from one cache state,
\* also when other requests run sync passes concurrently: the summary's
\* usage_records and total_tokens are the sums of records and tokens over
\* agent_totals, over model_totals and over daily_tokens of that response.
C14ConsistentSnapshot ==
    \A w \in Workers :
        Answered(w) =>
            /\ SumsAgree(resp[w], resp[w].AgentTotals)
            /\ SumsAgree(resp[w], resp[w].ModelTotals)
            /\ SumsAgree(resp[w], resp[w].DailyTokens)

(***************************************************************************)
(* Opening a store of an earlier schema                                    *)
(***************************************************************************)
\* The store file the last openDB found has a usage_records table that
\* lacks a required column.
FoundLegacy == probe.op = "opened" /\ needsRebuild(probe.store)

\* ... has a usage_records table with every required column.
FoundCurrent ==
    probe.op = "opened" /\ sawUsageTableColumn(probe.store) /\ ~needsRebuild(probe.store)

\* The first pass after openDB has committed.
FirstPassDone == Returned(1) /\ ~hist.repeat

\* C19: openDB on a store whose usage_records lacks a required column leaves
\* both tables empty, and the next pass commits what a pass on a new store
\* commits; openDB on a store with every required column leaves its rows and
\* its offsets as they were.
C19SchemaSelfHealing ==
    /\ FoundLegacy /\ pc[1] = "idle" => db = EmptyDB
    /\ FoundLegacy /\ FirstPassDone =>
           db = SyncAll(EmptyDB, IterSessionFiles(Universe), disk, tz)
    /\ FoundCurrent /\ pc[1] = "idle" =>
           db.recs = probe.store.recs /\ db.fstate = probe.store.fstate

\* A store of an earlier schema with rows and offsets was opened, and the
\* next pass ingested more rows than that store held.
C19Witness ==
    /\ FoundLegacy
    /\ FirstPassDone
    /\ probe.store.recs # <<>>
    /\ \E p \in Paths : probe.store.fstate[p].last_offset > 0
    /\ Len(db.recs) > Len(probe.store.recs)

(***************************************************************************)
(* Incremental passes against one pass over the final files               *)
(***************************************************************************)
\* No line of the file ends with "\r\n".
EndsWithLF(p) == \A i \in 1..Len(disk[p]) : disk[p][i] # "\r"

\* The rows one pass from an empty cache over the files as they are now
\* commits.
RebuiltRows == RowSet(SyncAll(EmptyDB, IterSessionFiles(Universe), disk, tz))

\* C20: after any appends of complete lines interleaved with passes, the set
\* of cached rows (agent, model, date_key, tokens, cost, hour, dow, source
\* file, source offset) is the set one pass from an empty cache over the
\* final files gives.
C20IncrementalEqualsRebuild ==
    \A w \in Workers : Returned(w) => RowSet(db) = RebuiltRows

(***************************************************************************)
(* Properties of the records ParseLine returns                             *)
(***************************************************************************)
\* The records under inspection: the one ParseLine returned and the rows
\* stored from it.
LineOutputs ==
    (IF probe.op \in {"parsed", "stored"} THEN Elements(probe.out) ELSE {})

HourDOWPaired(hour, dow, dateKey) ==
    /\ (hour = NilInt) = (dow = NilInt)
    /\ (hour = NilInt) = (dateKey = UNKNOWN)
    /\ hour # NilInt => hour \in 0..23 /\ dow \in 0..6

\* C21: every record ParseLine returns, and every row stored from one, has
\* hour and day of week both present or both absent, and they are absent
\* exactly when date_key is "unknown".
C21HourDOWPaired ==
    /\ \A r \in LineOutputs : HourDOWPaired(r.Hour, r.DOW, r.DateKey)
    /\ probe.op \in {"line", "parsed", "stored"} =>
           \A i \in 1..Len(db.recs) :
               HourDOWPaired(db.recs[i].hour, db.recs[i].dow, db.recs[i].date_key)

\* A row with a date, an hour and a day of week was stored from a line read
\* in a zone other than UTC.
C21Witness ==
    /\ probe.op = "stored"
    /\ db.recs # <<>>
    /\ db.recs[1].date_key # UNKNOWN
    /\ db.recs[1].hour \in 0..23
    /\ tz # 0

\* C22: every record ParseLine returns has a cost that is not negative.
C22NonNegativeCost == \A r \in LineOutputs : r.Cost >= 0

(***************************************************************************)
(* Properties of file_state                                                *)
(***************************************************************************)
\* The committed cache holds an offset for the file that is beyond the end
\* of the file: the condition of the truncation branch.
SmallerThanOffset(p) ==
    db.fstate[p].present /\ Len(disk[p]) < db.fstate[p].last_offset

\* The offset a read of the whole file from offset 0 stores.
OffsetFromZero(p) ==
    syncOneFile(EmptyDB, SessionFileOf(p), disk[p], "none", tz).tx.fstate[p].last_offset

\* C23: from one committed cache to the next, the stored last offset of a
\* file does not decrease, except in a pass that found the file smaller than
\* its stored offset, which stores the offset a read from zero reaches.
C23OffsetMonotone ==
    [][\A p \in Paths :
          IF db'.fstate[p].last_offset >= db.fstate[p].last_offset THEN TRUE
          ELSE SmallerThanOffset(p) /\ db'.fstate[p].last_offset = OffsetFromZero(p)]_vars

\* A pass has committed that moved the offset of one file forward from a
\* non-zero offset and restarted another, truncated, file at a lower one.
C23Witness ==
    \E w \in Workers, p, q \in Paths :
        /\ Returned(w)
        /\ hist.pre.fstate[p].last_offset > 0
        /\ db.fstate[p].last_offset > hist.pre.fstate[p].last_offset
        /\ FoundTruncated(q)
        /\ db.fstate[q].last_offset < hist.pre.fstate[q].last_offset

\* The offset the pass began to read the file from.
StartOffset(p) == IF FoundTruncated(p) THEN 0 ELSE hist.pre.fstate[p].last_offset

\* The file_state row of p after a committed pass, against the row before.
RowLifecycle(p) ==
    /\ hist.pre.fstate[p].present => db.fstate[p].present
    /\ hist.status[p] = "synced" =>
           /\ db.fstate[p].present
           /\ db.fstate[p].agent_name = SessionFileOf(p).AgentName
           /\ db.fstate[p].last_offset > StartOffset(p)
    /\ (~hist.pre.fstate[p].present /\ hist.status[p] # "synced") =>
           ~db.fstate[p].present

LineStarts(data) ==
    {o \in 0..(Len(data) - 1) : o = 0 \/ data[o] = "\n"}

\* The bytes of the line that starts at offset o, without its terminator.
LineAt(data, o) == Head(ScanLines(SubSeq(data, o + 1, Len(data))))

\* The row is what ParseLine gives for the line that starts at the row's
\* source_offset in the row's source_file.
AtTrueStart(row, data) ==
    /\ row.source_offset \in LineStarts(data)
    /\ <<row>> = [i \in 1..Len(ParseLineBytes(row.agent_name, LineAt(data, row.source_offset), tz))
                   |-> Row(ParseLineBytes(row.agent_name, LineAt(data, row.source_offset), tz)[i],
                           row.source_file, row.source_offset)]

\* C25: the source_offset of every cached row is the byte offset at which
\* the line it was parsed from starts in its source file.
C25TrueLineStart ==
    \A i \in 1..Len(db.recs) : AtTrueStart(db.recs[i], disk[db.recs[i].source_file])

\* What one more syncOneFile on the file, as it is, would do to the cache.
FollowingSync(p) == syncOneFile(db, SessionFileOf(p), disk[p], "none", tz)

\* C26: after a committed pass that synced a file, the stored last offset is
\* the number of bytes the scan consumed (it read to the end of the file), it
\* does not exceed the file's size, and a following pass over the unchanged
\* file takes the nothing-new branch, not the truncation branch.
C26OffsetWithinFile ==
    \A w \in Workers, p \in Paths :
        (Returned(w) /\ hist.status[p] = "synced") =>
            /\ db.fstate[p].last_offset = Len(disk[p])
            /\ db.fstate[p].last_offset <= Len(disk[p])
            /\ ~FollowingSync(p).truncated
            /\ ~FollowingSync(p).synced

\* C27: a line that a pass saw partly written is, once the writer has
\* completed it and a later pass has processed the file, in the cache as
\* exactly one record, and so is every line appended after it: after a
\* committed pass that processed a file of complete lines without failure,
\* the rows of the file are the records of its lines, one per line, in order.
C27PartialLineNotLost ==
    \A w \in Workers, p \in Paths :
        (Returned(w) /\ ~Failed(p) /\ AtLineStart(disk[p])) =>
            Contents(FileRecs(db, p)) = Contents(FreshRead(p, disk[p]))

(***************************************************************************)
(* Properties of the rows over time                                        *)
(***************************************************************************)
\* The rows d holds for the file are still the first rows e holds for it,
\* unchanged and in the same order.
RowsKept(d, e, p) == IsPrefix(FileRecs(d, p), FileRecs(e, p))

\* C28: no step changes or removes a cached row, committed or in the running
\* transaction, unless the row's file is smaller than its stored offset (the
\* pass found it truncated); appending to a file leaves the rows of that file
\* and of every other file as they are.
C28RecordsImmutable ==
    [][\A p \in Paths :
          ~SmallerThanOffset(p) =>
              /\ RowsKept(db, db', p)
              /\ \A w \in Workers :
                     (pc[w] = "files" /\ pc'[w] = "files") => RowsKept(tx[w], tx'[w], p)]_vars

\* A pass has committed that deleted the rows of a truncated file and added
\* a row to another file that had rows.
C28Witness ==
    \E w \in Workers, p, q \in Paths :
        /\ Returned(w)
        /\ FoundTruncated(q)
        /\ FileRecs(hist.pre, q) # <<>> /\ FileRecs(db, q) = <<>>
        /\ FileRecs(hist.pre, p) # <<>>
        /\ Len(FileRecs(db, p)) > Len(FileRecs(hist.pre, p))

(***************************************************************************)
(* Properties of the SyncResult                                            *)
(***************************************************************************)
\* The rows the committed pass inserted for the file.
InsertedIn(p) ==
    IF Failed(p) THEN 0
    ELSE IF FoundTruncated(p) THEN Len(FileRecs(db, p))
    ELSE Len(FileRecs(db, p)) - Len(FileRecs(hist.pre, p))

\* synced_files + skipped_files is the number of files enumerated, and
\* new_records the number of rows inserted and committed.
CountsAddUp(res) ==
    /\ res.SyncedFiles + res.SkippedFiles = Len(IterSessionFiles(Universe))
    /\ res.NewRecords = InsertedIn(FileA.Path) + InsertedIn(FileB.Path)

\* C29: when Sync returns without error, synced_files + skipped_files is the
\* number of session files enumerated, new_records is the number of rows the
\* pass inserted and committed, and a file with no new bytes (the pass began
\* right after a pass without failure, no file written in between) is
\* counted as skipped and contributes no rows.
C29SyncCounts ==
    \A w \in Workers :
        Returned(w) =>
            /\ CountsAddUp(ret[w].res)
            /\ hist.repeat =>
                   \A p \in Paths :
                       /\ hist.status[p] # "synced"
                       /\ FileRecs(db, p) = FileRecs(hist.pre, p)

(***************************************************************************)
(* Properties of the sync lock                                             *)
(***************************************************************************)
\* The lock is held by exactly the caller whose pass is running: a caller
\* that has returned, on whatever path, does not hold it.
LockWithPass == \A w \in LiveWorkers : (lock = w) <=> (pc[w] = "files")

\* The caller has not been through a pass yet.
NeverRan(v) == pc[v] \in {"idle", "waiting"} /\ ret[v] = NoReturn

\* What the file's own processing makes of the cache the pass began with.
ProcessedAlone(q) == syncOneFile(hist.pre, SessionFileOf(q), disk[q], "none", tz).tx

\* In a committed pass in which some file failed, every other file was
\* processed: it has the rows and the offset its own processing gives.
OthersSynced ==
    \A w \in LiveWorkers, p, q \in Paths :
        (/\ Returned(w)
         /\ \A v \in LiveWorkers \ {w} : NeverRan(v)
         /\ Failed(p) /\ ~Failed(q)) =>
            /\ FileRecs(db, q) = FileRecs(ProcessedAlone(q), q)
            /\ db.fstate[q] = ProcessedAlone(q).fstate[q]

\* C30: every Sync call ends, having released the sync lock, on every exit
\* path, so a caller waiting for the lock gets it and runs its own pass; and
\* a file that fails does not keep the other files from being synced.
C30SyncTerminates ==
    /\ [](LockWithPass /\ OthersSynced)
    /\ \A w \in LiveWorkers : (pc[w] = "files") ~> (pc[w] = "returned")
    /\ \A w \in LiveWorkers : (pc[w] = "waiting") ~> (pc[w] \in {"files", "returned"})

\* One caller's Sync has returned an error and released the lock, and the
\* other caller, which was waiting, holds the lock and has synced a file after
\* another file failed.
C30Witness ==
    \E w, v \in LiveWorkers, p, q \in Paths :
        /\ pc[w] = "returned" /\ ret[w].err
        /\ pc[v] = "files" /\ lock = v
        /\ Failed(p) /\ hist.status[q] = "synced"

(***************************************************************************)
(* Properties of the alias resolution                                      *)
(***************************************************************************)
\* The line decodes into rawRecord: it is a JSON object whose top-level
\* model aliases and costUsd have the types of the struct.
TopLevelTyped ==
    /\ probe.rec.t = "obj"
    /\ \A v \in {probe.rec.Model, probe.rec.ModelID, probe.rec.ModelID2} :
          v.t \in {"null", "str"}
    /\ probe.rec.CostUsd.t \in {"null", "num"}

\* The line decodes and carries its usage object at the top level only.
TopLevelUsage ==
    /\ TopLevelTyped
    /\ probe.rec.Message = MessageAbsent
    /\ probe.rec.Usage.t = "obj"

\* The explicit-total aliases in the order of their priority.
AliasOrder(u) == <<u.TotalTokens, u.TotalTokens2, u.Total, u.Tokens>>

\* C31 as stated: the aliases are taken in the order totalTokens,
\* total_tokens, total, tokens, and when the usage object carries one of
\* them the token count is the value of a carried alias, never the sum of
\* the component fields.
C31AsStated ==
    (Parsed /\ TopLevelUsage) =>
        /\ Positive(AliasOrder(probe.rec.Usage)) # {} =>
              TokensOf(probe.out) =
                 toInt(AliasOrder(probe.rec.Usage)[First(Positive(AliasOrder(probe.rec.Usage)))])
        /\ Carried(AliasOrder(probe.rec.Usage)) # {} =>
              \E i \in Carried(AliasOrder(probe.rec.Usage)) :
                 TokensOf(probe.out) = PositivePart(toInt(AliasOrder(probe.rec.Usage)[i]))

\* C31: the token count is the value of the first alias, in the order
\* totalTokens, total_tokens, total, tokens, whose value is a positive
\* number, and the positive component fields are summed only when none of
\* these aliases has a positive value.
C31AliasPriority ==
    (Parsed /\ TopLevelUsage) =>
        IF Positive(AliasOrder(probe.rec.Usage)) # {}
        THEN /\ probe.out # <<>>
             /\ TokensOf(probe.out) =
                   toInt(AliasOrder(probe.rec.Usage)[First(Positive(AliasOrder(probe.rec.Usage)))])
        ELSE TokensOf(probe.out) =
                SumAt(ComponentFields(probe.rec.Usage),
                      Positive(ComponentFields(probe.rec.Usage)))

\* A line with totalTokens 0, total_tokens 6, tokens 8 and input 2 was
\* parsed into a record of 6 tokens.
C31Witness ==
    /\ Parsed
    /\ TopLevelUsage
    /\ probe.rec.Usage.TotalTokens = Num(Lit(0))
    /\ probe.rec.Usage.TotalTokens2 = Num(Lit(6))
    /\ probe.rec.Usage.Tokens = Num(Lit(8))
    /\ probe.rec.Usage.Input = Num(Lit(2))
    /\ TokensOf(probe.out) = 6

(***************************************************************************)
(* Properties of the usage object ParseLine takes                          *)
(***************************************************************************)
\* No "usage" member of the line is the JSON null.
NoNullUsage == probe.rec.Message.Usage.t # "null" /\ probe.rec.Usage.t # "null"

\* "message" is an object that carries a usage object.
NestedUsable == probe.rec.Message.t = "obj" /\ probe.rec.Message.Usage.t = "obj"

\* The token total of a usage object.
ChosenTokens(u) == TokenRule(AliasOrder(u), ComponentFields(u))

\* The token count the resolution of C32 gives (0: no record).
ResolvedTokens ==
    IF NestedUsable THEN ChosenTokens(probe.rec.Message.Usage)
    ELSE IF probe.rec.Usage.t = "obj" THEN ChosenTokens(probe.rec.Usage)
    ELSE 0

\* C32: ParseLine takes its token total from the usage object nested under
\* "message" when there is one, otherwise from the top-level usage object,
\* and returns no record when there is neither; a line that is not JSON
\* yields no record.
C32UsageResolution ==
    Parsed =>
        /\ probe.rec.t = "bad" => probe.out = <<>>
        /\ (TopLevelTyped /\ NoNullUsage) => TokensOf(probe.out) = ResolvedTokens

(***************************************************************************)
(* Properties of the model name                                            *)
(***************************************************************************)
\* The literal "unknown".
UnknownModel == <<"u", "n", "k", "n", "o", "w", "n">>

\* message.model, message.modelId, message.model_id, model, modelId,
\* model_id.
AllCandidates ==
    <<probe.rec.Message.Model, probe.rec.Message.ModelID, probe.rec.Message.ModelID2,
      probe.rec.Model, probe.rec.ModelID, probe.rec.ModelID2>>

\* "message" decodes: it is an object whose model aliases are strings.
MessageTyped ==
    /\ probe.rec.Message.t = "obj"
    /\ \A v \in {probe.rec.Message.Model, probe.rec.Message.ModelID,
                  probe.rec.Message.ModelID2} : v.t \in {"null", "str"}

\* The candidates ParseLine can read: the message's only if it decodes.
ReadCandidates ==
    IF MessageTyped THEN AllCandidates ELSE SubSeq(AllCandidates, 4, 6)

\* The positions of the candidates that are non-empty strings.
NonEmptyAt(c) == {i \in 1..Len(c) : c[i].t = "str" /\ c[i].s # <<>>}

\* The positions of the candidates that are strings with something other
\* than white space in them.
NonBlankAt(c) == {i \in 1..Len(c) : c[i].t = "str" /\ TrimSpace(c[i].s) # <<>>}

Tenths(v) == FloatToTenths(ParseFloat(v.s))

\* The cost the resolution of C34 gives for a line with top-level costUsd c
\* and usage object u.
CostRule(c, u) ==
    IF c.t = "num" THEN Tenths(c)
    ELSE IF u.Cost.t = "num" THEN Tenths(u.Cost)
    ELSE IF u.Cost.t = "obj" /\ u.CostTotal.t = "num" THEN Tenths(u.CostTotal)
    ELSE 0

\* C34: the record's cost is the top-level costUsd when present; otherwise
\* the scalar usage.cost when it is a number; otherwise usage.cost.total
\* when usage.cost is an object with a numeric total; otherwise 0.
C34CostResolution ==
    (Parsed /\ probe.out # <<>>) =>
        probe.out[1].Cost = CostRule(probe.rec.CostUsd, probe.rec.Usage)

\* A line with costUsd 0 and usage.cost 1.5 was parsed into a record of
\* cost 0, and one with costUsd 0.5 and usage.cost.total 1.5 into 0.5.
C34Witness ==
    /\ Parsed
    /\ probe.out # <<>>
    /\ probe.rec.CostUsd.t = "num"
    /\ probe.rec.Usage.Cost.t \in {"num", "obj"}
    /\ probe.out[1].Cost # Tenths(IF probe.rec.Usage.Cost.t = "num"
                                  THEN probe.rec.Usage.Cost
                                  ELSE probe.rec.Usage.CostTotal)
    /\ probe.out[1].Cost = Tenths(probe.rec.CostUsd)

(***************************************************************************)
(* Properties of numeric timestamps                                        *)
(***************************************************************************)
Stamped == probe.op = "stamped"

\* C35: a timestamp given as a numeric string is interpreted as the same
\* value given as a JSON number: both lines yield the same date_key, hour
\* and day of week.
C35StringAsNumber == Stamped => probe.out[1] = probe.out[2]

\* Monday = 0 .. Sunday = 6 for a day counted from 1970-01-01, a Thursday.
DowOfDay(day) == (day + 3) % 7

\* The day and the second of the day of the instant on the local clock.
LocalDay == probe.day + ((probe.sod + tz) \div SecondsPerDay)

LocalSecond == (probe.sod + tz) % SecondsPerDay

\* The day a date_key names.
KeyDay(date) == DaysFromCivil(date.y, date.m, date.d)

\* Hour and day of week of a record are in range and belong to the day its
\* date_key names.
HourDOWInRange(r) ==
    /\ r.Hour \in 0..23
    /\ r.DOW \in 0..6
    /\ r.DOW = DowOfDay(KeyDay(ParseDate(r.DateKey)))

\* The record is the one of the instant on the local clock.
OnLocalClock(r) ==
    /\ r.Hour = LocalSecond \div 3600
    /\ r.DOW = DowOfDay(LocalDay)
    /\ KeyDay(ParseDate(r.DateKey)) = LocalDay

\* C36: for every record with a resolved timestamp, hour is the local
\* wall-clock hour in 0..23 and day of week is in 0..6 with 0 = Monday and
\* 6 = Sunday, both from the same local time as date_key.
C36LocalHourDOW ==
    Stamped =>
        /\ \A i \in 1..3 : probe.out[i] # <<>> /\ HourDOWInRange(probe.out[i][1])
        /\ OnLocalClock(probe.out[3][1])
        /\ probe.unit = "s" => OnLocalClock(probe.out[1][1]) /\ OnLocalClock(probe.out[2][1])

\* Tuesday 2026-02-17 02:00 UTC was parsed five hours west of UTC: hour 21
\* of a Monday.
C36Witness ==
    /\ Stamped
    /\ tz = 0 - 18000
    /\ probe.day = DaysFromCivil(2026, 2, 17)
    /\ probe.sod = 7200
    /\ probe.unit = "s"
    /\ probe.out[1][1].Hour = 21
    /\ probe.out[1][1].DOW = 0

(***************************************************************************)
(* Properties of the enumeration of the session files                      *)
(***************************************************************************)
\* The *.jsonl files in <root>/<agent>/sessions/ of every agent directory,
\* each with the name of its agent's directory.
FilesOfTree(tree) ==
    UNION {{[AgentName |-> n, Path |-> n \o <<"/">> \o f.stem] :
              f \in {g \in tree.entries[n].files : g.ext = "jsonl"}} :
             n \in {m \in EntryNames : tree.entries[m].kind = "dir" /\ tree.entries[m].sessions}}

\* The list holds exactly the session files of S, each once.
ListsExactly(list, S) ==
    /\ {list[i] : i \in 1..Len(list)} = S
    /\ Len(list) = Cardinality(S)

\* C37: IterSessionFiles returns exactly the *.jsonl files in
\* <root>/<agent>/sessions/ of every agent directory, each paired with its
\* agent's directory name, in the same order on every call over an
\* unchanged tree; a missing root yields an empty list, and Sync then
\* returns zero counts.
C37EnumerationComplete ==
    /\ probe.op \in {"listed", "relisted"} =>
          ListsExactly(probe.files, FilesOfTree(probe.tree))
    /\ probe.op = "relisted" => probe.again = probe.files
    /\ (~probe.tree.exists /\ pc[1] = "returned") => ret[1].res = ZeroResult

(***************************************************************************)
(* Properties of the PID file                                              *)
(***************************************************************************)
\* The daemon child got the signal, main returned from Serve and the
\* process has exited.
ExitedOnSignal ==
    /\ probe.daemon
    /\ probe.signalled
    /\ probe.exited
    /\ pc["main"] = "returned"

\* C38: when the daemon child receives SIGINT or SIGTERM, the PID file is
\* removed before the process exits, however the shutdown goroutine and
\* the return of main from Serve interleave; and the PID file is written
\* only after the listener has been bound.
C38PIDFileRemoved ==
    /\ ExitedOnSignal => probe.pidFile = "none"
    /\ probe.pidFile = "own" => probe.bound

====
